---- MODULE Spec2Model ----
(***************************************************************************)
(* A model of rs-gh-app (src/src/main.rs, src/src/app.rs,                  *)
(* src/src/github.rs): the install / check / self-update command runs and  *)
(* the version helpers they use.                                           *)
(*                                                                         *)
(* Text is a string; Len, \o and SubSeq act on it character by character, *)
(* so parsing and pattern matching are computed on the characters.  An     *)
(* Option<T> is a sequence of length at most one: None is << >>, Some(x)   *)
(* is << x >>.                                                             *)
(***************************************************************************)
EXTENDS Integers, Sequences, FiniteSets, TLC

\* ------------------------------------------------------------------ bounds

\* Longest version text compared by is_version_update_needed.
MaxVerLen == 5

\* ------------------------------------------------------------ Option, text

None == << >>
Some(x) == << x >>
IsSome(o) == Len(o) = 1
IsNone(o) == Len(o) = 0
Unwrap(o) == o[1]

Digits == {"0", "1", "2", "3", "4", "5", "6", "7", "8", "9"}

IsDigit(c) == c \in Digits

DigitVal(c) ==
    CASE c = "0" -> 0 [] c = "1" -> 1 [] c = "2" -> 2 [] c = "3" -> 3
      [] c = "4" -> 4 [] c = "5" -> 5 [] c = "6" -> 6 [] c = "7" -> 7
      [] c = "8" -> 8 [] c = "9" -> 9

\* The i-th character of s, as a text of length one.
Char(s, i) == SubSeq(s, i, i)

\* All texts over the alphabet A of length at most n.
RECURSIVE TextsUpTo(_, _)
TextsUpTo(A, n) ==
    IF n = 0 THEN {""}
    ELSE LET shorter == TextsUpTo(A, n - 1)
         IN  shorter \cup { t \o c : t \in shorter, c \in A }

\* Decimal value of a non-empty run of digits.
RECURSIVE NumVal(_)
NumVal(ds) ==
    IF Len(ds) = 0 THEN 0
    ELSE 10 * NumVal(SubSeq(ds, 1, Len(ds) - 1)) + DigitVal(Char(ds, Len(ds)))

\* str::split('.'): the pieces between the dots, empty pieces included.
RECURSIVE SplitDots(_)
SplitDots(s) ==
    IF \A i \in 1..Len(s) : Char(s, i) # "."
    THEN << s >>
    ELSE LET i == CHOOSE k \in 1..Len(s) :
                      Char(s, k) = "." /\ \A j \in 1..(k - 1) : Char(s, j) # "."
         IN  << SubSeq(s, 1, i - 1) >> \o SplitDots(SubSeq(s, i + 1, Len(s)))

\* ------------------------------------------------- semver::Version (app.rs)

\* A numeric identifier of a semantic version: digits, no leading zero.
IsNumericIdent(p) ==
    /\ Len(p) >= 1
    /\ \A i \in 1..Len(p) : IsDigit(Char(p, i))
    /\ (Len(p) > 1 => Char(p, 1) # "0")

\* Version::parse on a text without '-' and '+' (no pre-release, no build
\* metadata): Some(<<major, minor, patch>>), or None for a parse error.
VersionParse(s) ==
    LET parts == SplitDots(s)
    IN  IF Len(parts) = 3 /\ \A i \in 1..3 : IsNumericIdent(parts[i])
        THEN Some(<< NumVal(parts[1]), NumVal(parts[2]), NumVal(parts[3]) >>)
        ELSE None

\* Ord for Version: major, then minor, then patch.
VersionGt(a, b) ==
    \/ a[1] > b[1]
    \/ a[1] = b[1] /\ a[2] > b[2]
    \/ a[1] = b[1] /\ a[2] = b[2] /\ a[3] > b[3]

\* The comparison of two parsed versions in is_version_update_needed.
SemverUpdateNeededGe(current_semver, latest_semver) ==
    ~ VersionGt(current_semver, latest_semver)

SemverUpdateNeeded(current_semver, latest_semver) ==
    VersionGt(latest_semver, current_semver)

\* AppStatus::is_version_update_needed on (current_version, latest_version).
is_version_update_needed(current_version, latest_version) ==
    CASE IsNone(current_version) /\ IsNone(latest_version) -> FALSE
      [] IsNone(current_version) /\ IsSome(latest_version) -> TRUE
      [] IsSome(current_version) /\ IsNone(latest_version) -> FALSE
      [] OTHER ->
            LET current_ver == Unwrap(current_version)
                latest_ver  == Unwrap(latest_version)
                c == VersionParse(current_ver)
                l == VersionParse(latest_ver)
            IN  IF IsSome(c) /\ IsSome(l)
                THEN SemverUpdateNeeded(Unwrap(c), Unwrap(l))
                ELSE current_ver # latest_ver

\* ------------------------------------------------------- text operations

\* True iff the text p stands in s at position i.
MatchesAt(s, p, i) ==
    /\ i >= 1
    /\ i + Len(p) - 1 <= Len(s)
    /\ SubSeq(s, i, i + Len(p) - 1) = p

\* str::ends_with
EndsWith(s, p) == Len(p) <= Len(s) /\ MatchesAt(s, p, Len(s) - Len(p) + 1)

\* str::contains
Contains(s, p) == \E i \in 1..(Len(s) + 1) : MatchesAt(s, p, i)

\* str::replace: every non-overlapping occurrence of the non-empty text
\* pat in s, found from left to right, is replaced by rep.
RECURSIVE Replace(_, _, _)
Replace(s, pat, rep) ==
    IF ~ Contains(s, pat) THEN s
    ELSE LET i == CHOOSE k \in 1..Len(s) :
                      MatchesAt(s, pat, k) /\ \A j \in 1..(k - 1) : ~ MatchesAt(s, pat, j)
         IN  SubSeq(s, 1, i - 1) \o rep
                 \o Replace(SubSeq(s, i + Len(pat), Len(s)), pat, rep)

\* The whitespace of \s and of str::trim that the modelled texts use.
IsSpace(c) == c = " "

\* str::trim
RECURSIVE Trim(_)
Trim(s) ==
    IF Len(s) > 0 /\ IsSpace(Char(s, 1)) THEN Trim(SubSeq(s, 2, Len(s)))
    ELSE IF Len(s) > 0 /\ IsSpace(Char(s, Len(s))) THEN Trim(SubSeq(s, 1, Len(s) - 1))
    ELSE s

\* True iff s[i .. i+k-1] exists and is all digits.
DigitsAt(s, i, k) ==
    /\ i + k - 1 <= Len(s)
    /\ \A j \in i..(i + k - 1) : IsDigit(Char(s, j))

\* ------------------------------------- extract_version_from_string (main.rs)

\* The repetition bound of \d{1,5}.
MaxRep == 5

\* The repetition counts k in 1..MaxRep that \d{1,5} can take at position
\* i of s with the character after them being `after` ("" for any).
Repetitions(s, i, after) ==
    { k \in 1..MaxRep : DigitsAt(s, i, k)
                        /\ (after = "" \/ MatchesAt(s, after, i + k)) }

\* The matches of (\d{1,5}\.\d{1,5}\.\d{1,5}) that start at position i, as
\* the triples of repetition counts the three \d{1,5} take.
VersionMatchesAt(s, i) ==
    UNION { UNION { { << k1, k2, k3 >> :
                        k3 \in Repetitions(s, i + k1 + 1 + k2 + 1, "") }
                    : k2 \in Repetitions(s, i + k1 + 1, ".") }
            : k1 \in Repetitions(s, i, ".") }

\* Greedy repetition: the match the regex engine reports at i takes the
\* largest first count, then the largest second, then the largest third.
GreedyVersionMatch(s, i) ==
    CHOOSE k \in VersionMatchesAt(s, i) :
        \A m \in VersionMatchesAt(s, i) :
            \/ k[1] > m[1]
            \/ k[1] = m[1] /\ k[2] > m[2]
            \/ k[1] = m[1] /\ k[2] = m[2] /\ k[3] >= m[3]

\* Regex::find from position i on: the leftmost match.
RECURSIVE FindVersion(_, _)
FindVersion(s, i) ==
    IF i > Len(s) THEN None
    ELSE IF VersionMatchesAt(s, i) = {} THEN FindVersion(s, i + 1)
    ELSE LET k == GreedyVersionMatch(s, i)
         IN  Some(SubSeq(s, i, i + k[1] + k[2] + k[3] + 1))

\* extract_version_from_string of main.rs.
extract_version_from_string(s) == FindVersion(s, 1)

\* ------------------------------------- extract_version_from_string (app.rs)

\* (\d{1,5}\.\d{1,5}\.\d{1,5}(?:\.\d{1,5})?) at position i: the position of
\* the last character of the match the regex engine reports there, 0 when
\* there is none.  The three counts are greedy; the optional fourth part
\* is taken when a dot and a digit follow, with its greedy count.
CoreEndAt(s, i) ==
    IF VersionMatchesAt(s, i) = {} THEN 0
    ELSE LET k     == GreedyVersionMatch(s, i)
             e     == i + k[1] + k[2] + k[3] + 1
             build == Repetitions(s, e + 2, "")
         IN  IF MatchesAt(s, ".", e + 1) /\ build # {}
             THEN e + 1 + (CHOOSE n \in build : \A m \in build : n >= m)
             ELSE e

\* (\d{1,5}\.\d{1,5}) at position i: the end of the greedy match, or 0.
TwoPartEndAt(s, i) ==
    LET major == Repetitions(s, i, ".")
    IN  IF \A k1 \in major : Repetitions(s, i + k1 + 1, "") = {} THEN 0
        ELSE LET k1    == CHOOSE k \in major :
                              /\ Repetitions(s, i + k + 1, "") # {}
                              /\ \A m \in major :
                                    Repetitions(s, i + m + 1, "") # {} => k >= m
                 minor == Repetitions(s, i + k1 + 1, "")
             IN  i + k1 + (CHOOSE n \in minor : \A m \in minor : n >= m)

\* The number of whitespace characters from position i on.
RECURSIVE SpacesFrom(_, _)
SpacesFrom(s, i) ==
    IF i <= Len(s) /\ IsSpace(Char(s, i)) THEN 1 + SpacesFrom(s, i + 1) ELSE 0

\* One pattern of the list tried at position i: << first, last >> of its
\* capture group 1, or << >> when the pattern does not match there.
PatternGroupAt(pattern, s, i) ==
    LET from == CASE pattern = "core"         -> i
                  [] pattern = "v_core"       -> IF MatchesAt(s, "v", i) THEN i + 1 ELSE 0
                  [] pattern = "version_core" ->
                         IF MatchesAt(s, "version", i) /\ SpacesFrom(s, i + 7) >= 1
                         THEN i + 7 + SpacesFrom(s, i + 7) ELSE 0
                  [] pattern = "two_part"     -> i
        last == IF from = 0 THEN 0
                ELSE IF pattern = "two_part" THEN TwoPartEndAt(s, from)
                ELSE CoreEndAt(s, from)
    IN  IF last = 0 THEN << >> ELSE << from, last >>

\* Regex::captures: group 1 of the leftmost match of the pattern from
\* position i on.
RECURSIVE PatternCapture(_, _, _)
PatternCapture(pattern, s, i) ==
    IF i > Len(s) THEN None
    ELSE LET g == PatternGroupAt(pattern, s, i)
         IN  IF g = << >> THEN PatternCapture(pattern, s, i + 1)
             ELSE Some(SubSeq(s, g[1], g[2]))

\* `for pattern in &patterns`: the capture of the first pattern of the
\* list that matches.
RECURSIVE TryPatterns(_, _)
TryPatterns(patterns, s) ==
    IF patterns = << >> THEN None
    ELSE LET c == PatternCapture(Head(patterns), s, 1)
         IN  IF IsSome(c) THEN c ELSE TryPatterns(Tail(patterns), s)

\* An extractor that tries the two-part pattern first.
app_extract_two_part_first(s) ==
    TryPatterns(<< "two_part", "core", "v_core", "version_core" >>, s)

\* extract_version_from_string of app.rs: the four patterns in their order.
app_extract_version_from_string(s) ==
    TryPatterns(<< "core", "v_core", "version_core", "two_part" >>, s)

\* ------------------------------------ process_download_functions (main.rs)

\* First position >= i of the character c in s, or 0.
FirstAtOrAfter(s, c, i) ==
    IF \E k \in i..Len(s) : Char(s, k) = c
    THEN CHOOSE k \in i..Len(s) :
             Char(s, k) = c /\ \A j \in i..(k - 1) : Char(s, j) # c
    ELSE 0

\* The match of \{download\(([^,]+),\s*([^)]+)\)\} that starts at i:
\* << end, group 1, group 2 >>, or << >> when there is none.  [^,]+ runs to
\* the first comma and [^)]+ to the first ')' after it; \s* is greedy but
\* gives one character back when nothing else is left for [^)]+.
DownloadMatchAt(s, i) ==
    LET open  == "{download("
        from  == i + Len(open)
        comma == FirstAtOrAfter(s, ",", from)
        close == IF comma = 0 THEN 0 ELSE FirstAtOrAfter(s, ")", comma + 1)
        RECURSIVE Spaces(_)
        Spaces(k) == IF k < close /\ IsSpace(Char(s, k)) THEN 1 + Spaces(k + 1) ELSE 0
        ws    == Spaces(comma + 1)
        start == IF comma + 1 + ws <= close - 1 THEN comma + 1 + ws ELSE close - 1
    IN  IF /\ MatchesAt(s, open, i)
           /\ comma > from
           /\ close > comma + 1
           /\ MatchesAt(s, "}", close + 1)
        THEN << close + 1, SubSeq(s, from, comma - 1), SubSeq(s, start, close - 1) >>
        ELSE << >>

\* Regex::captures_iter: the successive non-overlapping leftmost matches in
\* template, each as [full, url, dest_path] with url and dest_path trimmed.
RECURSIVE DownloadCaptures(_, _)
DownloadCaptures(template, i) ==
    IF i > Len(template) THEN << >>
    ELSE LET m == DownloadMatchAt(template, i)
         IN  IF m = << >> THEN DownloadCaptures(template, i + 1)
             ELSE << [full      |-> SubSeq(template, i, m[1]),
                      url       |-> Trim(m[2]),
                      dest_path |-> Trim(m[3])] >>
                      \o DownloadCaptures(template, m[1] + 1)

\* ----------------------------------------------- download URLs (main.rs)

\* App::get_template
get_template(app) ==
    IF IsSome(app.template) THEN Unwrap(app.template)
    ELSE "{bin}-v{version}-{suffix}.tar.gz"

\* App::get_repo
get_repo(app) == IF IsSome(app.repo) THEN Unwrap(app.repo) ELSE ""

\* App::has_repo
has_repo(app) == IsSome(app.repo)

build_download_url(app, version, system_info) ==
    LET filename ==
            Replace(Replace(Replace(Replace(Replace(Replace(get_template(app),
                "{name}", app.name), "{bin}", app.bin), "{version}", version),
                "{os}", system_info.os), "{arch}", system_info.arch),
                "{suffix}", system_info.suffix)
    IN  "https://github.com/" \o get_repo(app) \o "/releases/download/"
            \o version \o "/" \o filename

build_self_update_url(version, system_info) ==
    LET archive_ext == IF system_info.os = "windows" THEN "zip" ELSE "tar.gz"
        filename    == "rs-gh-app-" \o system_info.suffix \o "." \o archive_ext
    IN  "https://github.com/mfouesneau/rs-gh-app/releases/download/v"
            \o version \o "/" \o filename

\* ------------------------------------------- asset matching (github.rs)

UpperCase ==
    << "A", "B", "C", "D", "E", "F", "G", "H", "I", "J", "K", "L", "M",
       "N", "O", "P", "Q", "R", "S", "T", "U", "V", "W", "X", "Y", "Z" >>

LowerCase ==
    << "a", "b", "c", "d", "e", "f", "g", "h", "i", "j", "k", "l", "m",
       "n", "o", "p", "q", "r", "s", "t", "u", "v", "w", "x", "y", "z" >>

\* A text with every character c for which from[i] = c replaced by to[i].
RECURSIVE MapCase(_, _, _)
MapCase(s, from, to) ==
    IF Len(s) = 0 THEN ""
    ELSE LET c == Char(s, 1)
             d == IF \E i \in 1..Len(from) : from[i] = c
                  THEN to[CHOOSE i \in 1..Len(from) : from[i] = c]
                  ELSE c
         IN  d \o MapCase(SubSeq(s, 2, Len(s)), from, to)

\* A matcher that compares the asset name as it is written.
to_lowercase_skipped(s) == s

\* str::to_lowercase
to_lowercase(s) == MapCase(s, UpperCase, LowerCase)

\* str::to_uppercase
to_uppercase(s) == MapCase(s, LowerCase, UpperCase)

\* PlatformMatcher::default: arch_aliases
arch_aliases ==
    [aarch64 |-> << "arm64", "aarch64" >>,
     x86_64  |-> << "x86_64", "amd64" >>,
     arm     |-> << "arm", "armv6", "armv7" >>]

\* PlatformMatcher::default: os_aliases
os_aliases ==
    [macos   |-> << "macos", "darwin", "osx" >>,
     linux   |-> << "linux" >>,
     windows |-> << "windows", "win32", "win" >>]

\* HashMap::get
MapGet(map, key) == IF key \in DOMAIN map THEN Some(map[key]) ELSE None

\* asset_matcher with the default matcher: TRUE for Ok(()), FALSE for Err.
asset_matcher(asset_name, current_platform) ==
    LET oses   == MapGet(os_aliases, current_platform.os)
        arches == MapGet(arch_aliases, current_platform.arch)
        name   == to_lowercase(asset_name)
        AnyOf(aliases) ==
            \E i \in 1..Len(aliases) : Contains(name, aliases[i])
    IN  IF Contains(name, current_platform.os) /\ Contains(name, current_platform.arch)
        THEN TRUE
        ELSE IF IsSome(oses) /\ IsSome(arches)
        THEN \E i \in 1..Len(Unwrap(oses)), j \in 1..Len(Unwrap(arches)) :
                /\ Contains(name, Unwrap(oses)[i])
                /\ Contains(name, Unwrap(arches)[j])
        ELSE IF IsSome(oses) THEN AnyOf(Unwrap(oses))
        ELSE IF IsSome(arches) THEN AnyOf(Unwrap(arches))
        ELSE FALSE

\* find_platform_assets with the default matcher: the assets whose name
\* matches the platform, in the order of the list, always as Ok.
find_platform_assets(assets, current_platform) ==
    LET Matches(asset) == asset_matcher(asset.name, current_platform)
    IN  [kind |-> "ok", info |-> SelectSeq(assets, Matches)]

\* ---------------------------------------------------------------- state

VARIABLES
    command,        \* the subcommand of this run: install, check, self_update
    dry_run,        \* --dry-run
    stop_on_error,  \* --stop-on-error
    system_info,    \* SystemInfo of the build: os, arch, suffix
    n_apps,         \* number of applications handed to install_apps / check_apps
    self_version,   \* CARGO_PKG_VERSION of the running build
    exe_perm,       \* what fs::metadata(current_exe) reports
    apps,           \* the applications the loop has not taken yet
    this_app,       \* `app` of the loop: the application being processed
    results,        \* "ok" / "err" of each processed application, in order
    pc,             \* the position of the run
    ret,            \* the Result the command returned, None while it runs
    last_result,    \* the Result install_app / get_app_status returned
    status,         \* the AppStatus being resolved / resolved for this_app
    url,            \* the archive URL of the install or self-update in progress
    effects,        \* what the processing of the current application has done
    report,         \* the line printed for the current application
    rate_seen,      \* (remaining, reset) of the parsed rate-limit answer
    su_latest,      \* latest_version in self_update
    exe_file,       \* content of the file at current_exe()
    backup_file,    \* content of the file at the backup path
    vs_current,     \* AppStatus.current_version of the status being compared
    vs_latest,      \* AppStatus.latest_version of the status being compared
    vs_result,      \* << >> before the call, << b >> after it
    fn_in,          \* the arguments of a function called on its own
    fn_out          \* << >> before that call, << result >> after it

cfg_vars == << command, dry_run, stop_on_error, system_info, n_apps,
               self_version, exe_perm >>

run_vars == << cfg_vars, apps, this_app, results, pc, ret, last_result, status,
               url, effects, report, rate_seen, su_latest, exe_file,
               backup_file >>

cmp_vars == << vs_current, vs_latest, vs_result, fn_in, fn_out >>

vars == << run_vars, cmp_vars >>

\* -------------------------------------------------------- results, errors

OkResult == [kind |-> "ok", info |-> 0]

Err(kind, info) == [kind |-> kind, info |-> info]

IsErr(result) == result.kind # "ok"

\* ------------------------------------------------------ the configuration

\* Largest number of applications in a run.
MaxApps == 2

\* detect_system_info: the SystemInfo of each supported build target.
detect_system_info ==
    { [os |-> "linux",   arch |-> "x86_64",  suffix |-> "x86_64-unknown-linux-musl"],
      [os |-> "linux",   arch |-> "aarch64", suffix |-> "aarch64-unknown-linux-musl"],
      [os |-> "darwin",  arch |-> "x86_64",  suffix |-> "x86_64-apple-darwin"],
      [os |-> "darwin",  arch |-> "aarch64", suffix |-> "x86_64-apple-darwin"],
      [os |-> "windows", arch |-> "x86_64",  suffix |-> "x86_64-pc-windows-msvc"] }

\* The build targets of the install and check runs: one unix, one windows.
RunHosts ==
    { si \in detect_system_info :
          si.arch = "x86_64" /\ si.os \in {"linux", "windows"} }

\* #[cfg(windows)] / #[cfg(unix)] of the build.
IsWindows(si) == si.os = "windows"

\* struct App of main.rs.
MkApp(name, repo, template, install_command, update_command, script) ==
    [name |-> name, bin |-> name, repo |-> repo, template |-> template,
     install_command |-> install_command, update_command |-> update_command,
     script |-> script]

\* The applications a configuration of the model lists: a release download
\* with the default template, one with a zip template, an application with
\* neither repository nor commands, one with install and update commands
\* (the install command holding a download macro, as in the sample
\* configuration), one with an update command only, and one with a script.
AppCatalog ==
    { MkApp("rg", Some("o/rg"), None, None, None, None),
      MkApp("fd", Some("o/fd"), Some("{name}-{version}-{os}-{arch}.zip"), None, None, None),
      MkApp("b", None, None, None, None, None),
      MkApp("uv", Some("o/uv"), None,
            Some("{download(https://x/i.sh, /tmp/i.sh)} && sh /tmp/i.sh --yes"),
            Some("{bin_path} self update"), None),
      MkApp("up", Some("o/up"), None, None, Some("{bin} upgrade"), None),
      MkApp("sc", None, None, None, None, Some("{download(https://x/s, /tmp/s)}")) }

AppLists == UNION { [1..n -> AppCatalog] : n \in 0..MaxApps }

\* App::installation_method of main.rs.
installation_method(app) ==
    IF IsSome(app.install_command) \/ IsSome(app.update_command) THEN "Commands"
    ELSE IF IsSome(app.script) THEN "Script"
    ELSE "Template"

\* ------------------------------------------------------- the environment

\* What the two pixi invocations of check_pixi_managed give.
PixiOutcomes ==
    [version_spawned : BOOLEAN, list_spawned : BOOLEAN,
     stdout : {"", "No global environments found.", "rg 1.0.0"}]

\* check_pixi_managed of main.rs.
check_pixi_managed(o) ==
    IF ~ o.version_spawned THEN FALSE
    ELSE IF o.list_spawned
         THEN ~ Contains(o.stdout, "No global environments found")
         ELSE FALSE

\* What `bin --version` gives: whether it could be spawned, and its stdout.
VersionProbes ==
    [spawned : BOOLEAN, stdout : {"", "tool 0.9.0", "tool 1.0.0"}]

\* get_current_version of main.rs.
get_current_version(o) ==
    IF ~ o.spawned THEN None ELSE extract_version_from_string(o.stdout)

\* Answers to GET /rate_limit.
RateLimitAnswers ==
    [sent : BOOLEAN, status : {200, 500}, readable : BOOLEAN, json : BOOLEAN,
     remaining : {None, Some(0), Some(7)}, reset : {None, Some(1000)}]

\* Answers to GET /repos/{repo}/releases/latest.
ReleaseAnswers ==
    [sent : BOOLEAN, status : {200, 404, 500}, readable : BOOLEAN, json : BOOLEAN,
     tag_name : {None, Some("v1.0.0"), Some("nightly")}]

\* StatusCode::is_success
is_success(code) == code >= 200 /\ code < 300

\* unwrap_or
UnwrapOr(o, d) == IF IsSome(o) THEN Unwrap(o) ELSE d

\* The versions the running build of the tool can have.
SelfVersions == {"0.9.0", "1.0.0", "1.1.0"}

NoStatus ==
    [resolved |-> FALSE, pixi_managed |-> FALSE, current_version |-> None,
     latest_version |-> None, needs_install |-> FALSE]

\* The run variables of a run that has not been asked for.
IdleRun ==
    /\ command = "none"
    /\ dry_run = FALSE
    /\ stop_on_error = FALSE
    /\ system_info = CHOOSE si \in detect_system_info : si.os = "linux" /\ si.arch = "x86_64"
    /\ apps = << >>
    /\ n_apps = 0
    /\ this_app = None
    /\ pc = "done"
    /\ status = NoStatus
    /\ url = ""
    /\ effects = {}
    /\ report = None
    /\ rate_seen = None
    /\ last_result = None
    /\ results = << >>
    /\ ret = None
    /\ self_version = "1.0.0"
    /\ su_latest = ""
    /\ exe_file = "old"
    /\ exe_perm = "writable"
    /\ backup_file = "absent"

\* main: the state when the subcommand is dispatched.
Init ==
    /\ command \in {"install", "check", "self_update"}
    /\ dry_run \in (IF command = "check" THEN {FALSE} ELSE BOOLEAN)
    /\ stop_on_error \in (IF command = "self_update" THEN {FALSE} ELSE BOOLEAN)
    /\ system_info \in (IF command = "self_update" THEN detect_system_info
                                                    ELSE RunHosts)
    /\ apps \in (IF command = "self_update" THEN {<< >>} ELSE AppLists)
    /\ n_apps = Len(apps)
    /\ this_app = None
    /\ pc = "start"
    /\ status = NoStatus
    /\ url = ""
    /\ effects = {}
    /\ report = None
    /\ rate_seen = None
    /\ last_result = None
    /\ results = << >>
    /\ ret = None
    /\ self_version \in (IF command = "self_update" THEN SelfVersions ELSE {"1.0.0"})
    /\ su_latest = ""
    /\ exe_file = "old"
    /\ exe_perm \in (IF command = "self_update"
                       THEN {"writable", "readonly", "no_metadata"} ELSE {"writable"})
    /\ backup_file \in (IF command = "self_update" THEN {"absent", "stale"} ELSE {"absent"})
    /\ vs_current = None
    /\ vs_latest = None
    /\ vs_result = None
    /\ fn_in = None
    /\ fn_out = None

\* --------------------------------------- install_apps, check_apps (main.rs)

\* A loop that goes on after every Err.
AbortsBatchNever(result, stop) == FALSE

\* The test `if stop_on_error` under `Err(e)` in install_apps and check_apps.
AbortsBatch(result, stop) == IsErr(result) /\ stop

\* install_app, or get_app_status in check_apps, returns result to the loop.
AppReturns(result) ==
    /\ last_result' = Some(result)
    /\ pc' = "app_done"

\* main dispatches install or check: the loop is entered.
EnterLoop ==
    /\ pc = "start"
    /\ command \in {"install", "check"}
    /\ pc' = "loop"
    /\ UNCHANGED << cfg_vars, apps, this_app, results, ret, last_result, status,
                    url, effects, report, rate_seen, su_latest, exe_file,
                    backup_file, cmp_vars >>

\* `for app in apps`: the next application is taken and its processing
\* (install_app, or get_app_status in check_apps) starts.
NextApp ==
    /\ pc = "loop"
    /\ apps # << >>
    /\ this_app' = Some(Head(apps))
    /\ apps' = Tail(apps)
    /\ pc' = "get_app_status"
    /\ UNCHANGED << cfg_vars, results, ret, last_result, status, url,
                    effects, report, rate_seen, su_latest, exe_file,
                    backup_file, cmp_vars >>

\* The `if let Err(e)` of install_apps, the `match` of check_apps: the
\* Result of the application is taken; an Err with stop_on_error set is
\* returned at once, otherwise the iteration ends and its locals are gone.
TakeResult ==
    /\ pc = "app_done"
    /\ results' = Append(results, IF IsErr(Unwrap(last_result)) THEN "err" ELSE "ok")
    /\ IF AbortsBatch(Unwrap(last_result), stop_on_error)
       THEN /\ ret' = last_result
            /\ pc' = "done"
            /\ UNCHANGED << this_app, last_result, status, url, effects, report,
                            rate_seen >>
       ELSE /\ ret' = ret
            /\ pc' = "loop"
            /\ this_app' = None
            /\ last_result' = None
            /\ status' = NoStatus
            /\ url' = ""
            /\ effects' = {}
            /\ report' = None
            /\ rate_seen' = None
    /\ UNCHANGED << cfg_vars, apps, su_latest, exe_file, backup_file,
                    cmp_vars >>

\* The loop is over: install_apps / check_apps return Ok(()).
LoopReturns ==
    /\ pc = "loop"
    /\ apps = << >>
    /\ ret' = Some(OkResult)
    /\ pc' = "done"
    /\ UNCHANGED << cfg_vars, apps, this_app, results, last_result, status, url,
                    effects, report, rate_seen, su_latest, exe_file,
                    backup_file, cmp_vars >>

\* ------------------------------------------------ get_app_status (main.rs)

\* needs_install of get_app_status.
needs_install(app, pixi_managed, current_version, latest_version) ==
    /\ ~ pixi_managed
    /\ \/ IsNone(current_version)
       \/ has_repo(app) /\ current_version # Some(latest_version)

\* The AppStatus get_app_status returns for latest_version.
ResolvedStatus(app, pixi_managed, current_version, latest_version) ==
    [resolved |-> TRUE, pixi_managed |-> pixi_managed,
     current_version |-> current_version,
     latest_version |-> Some(latest_version),
     needs_install |-> needs_install(app, pixi_managed, current_version, latest_version)]

\* get_app_status up to the latest-version lookup: the pixi check and the
\* current version; without a repository the status is complete here.
GetAppStatus ==
    /\ pc = "get_app_status"
    /\ \E po \in PixiOutcomes, vo \in VersionProbes :
          LET app             == Unwrap(this_app)
              pixi_managed    == check_pixi_managed(po)
              current_version == get_current_version(vo)
          IN  /\ effects' = effects \cup {"pixi_probe", "version_probe"}
              /\ IF has_repo(app)
                 THEN /\ status' = [NoStatus EXCEPT !.pixi_managed = pixi_managed,
                                                    !.current_version = current_version]
                      /\ pc' = "rate_limit"
                 ELSE /\ status' = ResolvedStatus(app, pixi_managed, current_version,
                                                  UnwrapOr(current_version, "unknown"))
                      /\ pc' = "status_ready"
    /\ UNCHANGED << cfg_vars, apps, this_app, results, ret, last_result, url, report,
                    rate_seen, su_latest, exe_file, backup_file, cmp_vars >>

\* ---------------------------------------------- get_latest_version (main.rs)

\* str::contains("404") on the text of an error of get_latest_version.
Mentions404(e) == e.kind = "http" /\ e.info = 404

\* get_latest_version returns Err(e) to its caller: get_app_status hands it
\* on to install_app / check_apps and the iteration ends; self_update takes
\* a 404 for "no release" and returns Ok, and returns every other error.
LatestVersionFails(e) ==
    IF command = "self_update"
    THEN /\ ret' = Some(IF Mentions404(e) THEN OkResult ELSE e)
         /\ pc' = "done"
         /\ last_result' = last_result
    ELSE AppReturns(e) /\ ret' = ret

\* A lookup that ignores the remaining count.
RateLimitExhaustedNever(a) == FALSE

\* The rate-limit check of get_latest_version: the quota is exhausted when
\* the answer parsed and its remaining count, 1 when absent, is 0.
RateLimitExhausted(a) ==
    /\ is_success(a.status)
    /\ a.json
    /\ UnwrapOr(a.remaining, 1) = 0

\* get_latest_version, first request: GET /rate_limit.
QueryRateLimit ==
    /\ pc = "rate_limit"
    /\ \E a \in RateLimitAnswers :
          /\ effects' = effects \cup {"rate_limit_req"}
          /\ rate_seen' = IF a.sent /\ is_success(a.status) /\ a.readable /\ a.json
                          THEN Some([remaining |-> a.remaining, reset |-> a.reset])
                          ELSE None
          /\ IF ~ a.sent
             THEN LatestVersionFails(Err("transport", 0))
             ELSE IF is_success(a.status) /\ ~ a.readable
             THEN LatestVersionFails(Err("body", 0))
             ELSE IF RateLimitExhausted(a)
             THEN LatestVersionFails(Err("rate_limited", UnwrapOr(a.reset, 0)))
             ELSE pc' = "release" /\ UNCHANGED << last_result, ret >>
    /\ UNCHANGED << cfg_vars, apps, this_app, results, status, url, report,
                    su_latest, exe_file, backup_file, cmp_vars >>

\* extract_version_from_string on the tag_name of a release, when it has one.
TagVersion(tag_name) ==
    IF IsSome(tag_name) THEN extract_version_from_string(Unwrap(tag_name))
    ELSE None

\* get_latest_version returns Ok(version) to its caller.
LatestVersionIs(version) ==
    IF command = "self_update"
    THEN /\ su_latest' = version
         /\ pc' = "su_compare"
         /\ status' = status
    ELSE /\ status' = ResolvedStatus(Unwrap(this_app), status.pixi_managed,
                                     status.current_version, version)
         /\ pc' = "status_ready"
         /\ su_latest' = su_latest

\* get_latest_version, second request: GET /repos/{repo}/releases/latest,
\* and the version taken from the tag of the release.
QueryLatestRelease ==
    /\ pc = "release"
    /\ \E a \in ReleaseAnswers :
          LET version == TagVersion(a.tag_name)
              failure ==
                  IF ~ a.sent THEN Err("transport", 0)
                  ELSE IF ~ is_success(a.status) THEN Err("http", a.status)
                  ELSE IF ~ a.readable THEN Err("body", 0)
                  ELSE IF ~ a.json THEN Err("json", 0)
                  ELSE IF IsNone(a.tag_name) THEN Err("no_tag_name", 0)
                  ELSE IF IsNone(version) THEN Err("no_version_in_tag", 0)
                  ELSE OkResult
          IN  /\ effects' = effects \cup {"release_req"}
              /\ rate_seen' = None
              /\ IF IsErr(failure)
                 THEN LatestVersionFails(failure) /\ UNCHANGED << status, su_latest >>
                 ELSE LatestVersionIs(Unwrap(version)) /\ UNCHANGED << last_result, ret >>
    /\ UNCHANGED << cfg_vars, apps, this_app, results, url, report, exe_file,
                    backup_file, cmp_vars >>

\* ---------------------------------------------- print_app_status (main.rs)

\* The line print_app_status prints for a status.
print_app_status(st) ==
    IF st.pixi_managed THEN "pixi_managed"
    ELSE IF IsSome(st.current_version) /\ IsSome(st.latest_version)
         THEN IF st.current_version = st.latest_version
              THEN "already_latest" ELSE "update_available"
    ELSE IF IsNone(st.current_version) /\ IsSome(st.latest_version)
         THEN "not_installed"
    ELSE "version_unknown"

\* check_apps: the resolved status is printed and the iteration ends.
CheckReports ==
    /\ pc = "status_ready"
    /\ command = "check"
    /\ report' = Some(print_app_status(status))
    /\ AppReturns(OkResult)
    /\ UNCHANGED << cfg_vars, apps, this_app, results, ret, status, url, effects,
                    rate_seen, su_latest, exe_file, backup_file, cmp_vars >>

\* ----------------------------------------------------- install_app (main.rs)

\* An install_app that skips only what is not managed by pixi.
SkipsInstallUnmanaged(st) == ~ st.pixi_managed /\ ~ st.needs_install

\* The two skips of install_app: `if status.pixi_managed` and
\* `if !status.needs_install`, each printing the status and returning Ok.
SkipsInstall(st) == st.pixi_managed \/ ~ st.needs_install

\* install_app after get_app_status: the two skips, the dry run, and the
\* dispatch on the installation method.
InstallDecides ==
    /\ pc = "status_ready"
    /\ command = "install"
    /\ IF SkipsInstall(status)
       THEN /\ report' = Some(print_app_status(status))
            /\ AppReturns(OkResult)
       ELSE /\ report' = report
            /\ pc' = IF dry_run THEN "preview"
                     ELSE CASE installation_method(Unwrap(this_app)) = "Template" -> "download"
                            [] installation_method(Unwrap(this_app)) = "Commands" -> "commands"
                            [] installation_method(Unwrap(this_app)) = "Script"   -> "script"
            /\ last_result' = last_result
    /\ UNCHANGED << cfg_vars, apps, this_app, results, ret, status, url, effects,
                    rate_seen, su_latest, exe_file, backup_file, cmp_vars >>

\* is_update of install_app.
is_update(st) == IsSome(st.current_version)

\* ------------------------------------------------ process_template (main.rs)

\* How download_file can fail: the request is not sent, the answer is not
\* a success, its bytes cannot be read, create_dir_all fails, fs::write fails.
DownloadFailures == {"transport", "http", "body", "mkdir", "write"}

\* The runs of process_template on a template, each with what it did and
\* the Result it returned.  get_bin_dir and current_dir come first and may
\* fail; then process_download_functions calls download_file for every
\* {download(url, dest)} of the template in turn, the first failure ending
\* the run: `done` macros are fetched and written before it.
TemplateRuns(template) ==
    LET n == Len(DownloadCaptures(template, 1))
    IN  { [effects |-> {}, result |-> Err("no_bin_dir", 0)],
          [effects |-> {}, result |-> Err("io", 0)] }
        \cup
        { [effects |->
              (IF n >= 1 THEN {"macro_fetch"} ELSE {})
              \cup (IF r[1] >= 1 \/ r[2] = "write" THEN {"macro_mkdir"} ELSE {})
              \cup (IF r[1] >= 1 THEN {"macro_write"} ELSE {}),
           result |-> IF r[2] = "none" THEN OkResult ELSE Err(r[2], 0)]
          : r \in { q \in (0..n) \X (DownloadFailures \cup {"none"}) :
                        (q[2] = "none") <=> (q[1] = n) } }

\* The command execute_app_commands and preview_installation_steps take,
\* before the unwrap(): update_command for an update that has one, else
\* install_command.
SelectCommand(app, update) ==
    IF update /\ IsSome(app.update_command)
    THEN app.update_command
    ELSE app.install_command

\* The template the installation method renders, as an Option: unwrap()
\* panics on None.
MethodTemplate(app, update) ==
    IF installation_method(app) = "Commands" THEN SelectCommand(app, update)
    ELSE app.script

\* get_bin_dir can fail when no home directory is known.
BinDirKnown == BOOLEAN

\* preview_installation_steps: the dry run of install_app.
Preview ==
    /\ pc = "preview"
    /\ LET app == Unwrap(this_app)
           template == MethodTemplate(app, is_update(status))
       IN  IF installation_method(app) = "Template"
           THEN /\ url' = build_download_url(app, Unwrap(status.latest_version),
                                              system_info)
                /\ effects' = effects
                /\ \E known \in BinDirKnown :
                      AppReturns(IF known THEN OkResult ELSE Err("no_bin_dir", 0))
           ELSE IF IsNone(template)
           THEN /\ pc' = "panicked"
                /\ UNCHANGED << url, effects, last_result >>
           ELSE \E run \in TemplateRuns(Unwrap(template)) :
                   /\ effects' = effects \cup run.effects
                   /\ url' = url
                   /\ AppReturns(run.result)
    /\ UNCHANGED << cfg_vars, apps, this_app, results, ret, status, report,
                    rate_seen, su_latest, exe_file, backup_file, cmp_vars >>

\* ----------------------- execute_app_commands, execute_app_script (main.rs)

\* What `sh -c` gives: whether it could be spawned, and its exit status.
ShellOutcomes == [spawned : BOOLEAN, success : BOOLEAN]

\* execute_app_commands / execute_app_script: the template is rendered and
\* run through the shell.
RunShell(failed_kind) ==
    LET app == Unwrap(this_app)
        template == MethodTemplate(app, is_update(status))
    IN  IF IsNone(template)
        THEN /\ pc' = "panicked"
             /\ UNCHANGED << effects, last_result >>
        ELSE \E run \in TemplateRuns(Unwrap(template)), sh \in ShellOutcomes :
                IF IsErr(run.result)
                THEN /\ effects' = effects \cup run.effects
                     /\ AppReturns(run.result)
                ELSE IF ~ sh.spawned
                THEN /\ effects' = effects \cup run.effects
                     /\ AppReturns(Err("io", 0))
                ELSE IF ~ sh.success
                THEN /\ effects' = effects \cup run.effects \cup {"shell"}
                     /\ AppReturns(Err(failed_kind, 0))
                ELSE /\ effects' = effects \cup run.effects \cup {"shell"}
                     /\ pc' = "verify"
                     /\ last_result' = last_result

ExecuteAppCommands ==
    /\ pc = "commands"
    /\ RunShell("command_failed")
    /\ UNCHANGED << cfg_vars, apps, this_app, results, ret, status, url, report,
                    rate_seen, su_latest, exe_file, backup_file, cmp_vars >>

ExecuteAppScript ==
    /\ pc = "script"
    /\ RunShell("script_failed")
    /\ UNCHANGED << cfg_vars, apps, this_app, results, ret, status, url, report,
                    rate_seen, su_latest, exe_file, backup_file, cmp_vars >>

\* -------------------------------------------- download_and_install (main.rs)

\* Answers to the GET of an archive.
ArchiveAnswers == [sent : BOOLEAN, status : {200, 404}, readable : BOOLEAN]

\* The Result of an archive request.
ArchiveRequestResult(a) ==
    IF ~ a.sent THEN Err("transport", 0)
    ELSE IF ~ is_success(a.status) THEN Err("download_http", a.status)
    ELSE IF ~ a.readable THEN Err("body", 0)
    ELSE OkResult

\* install_app builds the URL; download_and_install finds the binaries
\* directory and requests the archive.
DownloadArchive ==
    /\ pc = "download"
    /\ url' = build_download_url(Unwrap(this_app), Unwrap(status.latest_version),
                                 system_info)
    /\ \E known \in BinDirKnown, a \in ArchiveAnswers :
          IF ~ known
          THEN effects' = effects /\ AppReturns(Err("no_bin_dir", 0))
          ELSE /\ effects' = effects \cup {"archive_req"}
               /\ IF IsErr(ArchiveRequestResult(a))
                  THEN AppReturns(ArchiveRequestResult(a))
                  ELSE pc' = "extract" /\ last_result' = last_result
    /\ UNCHANGED << cfg_vars, apps, this_app, results, ret, status, report,
                    rate_seen, su_latest, exe_file, backup_file, cmp_vars >>

\* A choice of extractor that takes every other URL for a zip archive.
archive_format_zip_default(u) ==
    IF EndsWith(u, ".tar.gz") \/ EndsWith(u, ".tgz") THEN "tar_gz"
    ELSE IF EndsWith(u, ".tar") THEN "tar"
    ELSE "zip"

\* The extractor download_and_install picks from the end of the URL.
archive_format(u) ==
    IF EndsWith(u, ".tar.gz") \/ EndsWith(u, ".tgz") THEN "tar_gz"
    ELSE IF EndsWith(u, ".tar") THEN "tar"
    ELSE IF EndsWith(u, ".zip") THEN "zip"
    ELSE "unsupported"

\* What the temporary directory and the extraction give.
ExtractOutcomes == [temp_dir : BOOLEAN, unpacked : BOOLEAN, listed : BOOLEAN]

\* download_and_install: the temporary directory, the extraction by format,
\* the listing of the extracted files.
ExtractArchive ==
    /\ pc = "extract"
    /\ \E o \in ExtractOutcomes :
          IF ~ o.temp_dir
          THEN effects' = effects /\ AppReturns(Err("io", 0))
          ELSE IF archive_format(url) = "unsupported"
          THEN effects' = effects /\ AppReturns(Err("unsupported_format", 0))
          ELSE /\ effects' = effects \cup {"extract", "extract_" \o archive_format(url)}
               /\ IF ~ o.unpacked THEN AppReturns(Err("extraction", 0))
                  ELSE IF ~ o.listed THEN AppReturns(Err("io", 0))
                  ELSE pc' = "place" /\ last_result' = last_result
    /\ UNCHANGED << cfg_vars, apps, this_app, results, ret, status, url, report,
                    rate_seen, su_latest, exe_file, backup_file, cmp_vars >>

\* What the search of the extracted tree, the copy and the chmod give.
PlaceOutcomes == [found : BOOLEAN, copied : BOOLEAN, chmod : BOOLEAN]

\* download_and_install: find_binary_in_extracted, fs::copy into the
\* binaries directory, and on unix the mode 0o755.
PlaceBinary ==
    /\ pc = "place"
    /\ \E o \in PlaceOutcomes :
          IF ~ o.found
          THEN effects' = effects /\ AppReturns(Err("binary_not_found", 0))
          ELSE IF ~ o.copied
          THEN effects' = effects \cup {"bin_write"} /\ AppReturns(Err("io", 0))
          ELSE IF IsWindows(system_info)
          THEN /\ effects' = effects \cup {"bin_write"}
               /\ pc' = "verify"
               /\ last_result' = last_result
          ELSE IF ~ o.chmod
          THEN effects' = effects \cup {"bin_write"} /\ AppReturns(Err("io", 0))
          ELSE /\ effects' = effects \cup {"bin_write", "chmod"}
               /\ pc' = "verify"
               /\ last_result' = last_result
    /\ UNCHANGED << cfg_vars, apps, this_app, results, ret, status, url, report,
                    rate_seen, su_latest, exe_file, backup_file, cmp_vars >>

\* install_app: the installed version is probed and reported; Ok(()).
VerifyInstall ==
    /\ pc = "verify"
    /\ \E vo \in VersionProbes :
          /\ effects' = effects \cup {"verify_probe"}
          /\ report' = Some(IF IsSome(get_current_version(vo))
                            THEN "installed" ELSE "installed_unverified")
          /\ AppReturns(OkResult)
    /\ UNCHANGED << cfg_vars, apps, this_app, results, ret, status, url,
                    rate_seen, su_latest, exe_file, backup_file, cmp_vars >>

\* ----------------------------------------------------- self_update (main.rs)

\* self_update returns.
SelfUpdateReturns(result) ==
    /\ ret' = Some(result)
    /\ pc' = "done"

\* main dispatches self-update: self_update asks for the latest version.
SelfUpdateStarts ==
    /\ pc = "start"
    /\ command = "self_update"
    /\ pc' = "rate_limit"
    /\ UNCHANGED << cfg_vars, apps, this_app, results, ret, last_result, status,
                    url, effects, report, rate_seen, su_latest, exe_file,
                    backup_file, cmp_vars >>

\* `latest_version_parsed < current_version` in the place of `<=`.
UpToDateStrict(latest_parsed, current_parsed) ==
    VersionGt(current_parsed, latest_parsed)

\* `latest_version_parsed <= current_version`: nothing to update.
UpToDate(latest_parsed, current_parsed) ==
    ~ VersionGt(latest_parsed, current_parsed)

\* self_update: both versions are parsed and compared; an up-to-date build
\* and a dry run return here.
SelfUpdateCompares ==
    /\ pc = "su_compare"
    /\ LET current == VersionParse(self_version)
           latest  == VersionParse(su_latest)
       IN  IF IsNone(current) \/ IsNone(latest)
           THEN /\ SelfUpdateReturns(Err("invalid_version", 0))
                /\ UNCHANGED << url, report >>
           ELSE IF UpToDate(Unwrap(latest), Unwrap(current))
           THEN /\ SelfUpdateReturns(OkResult)
                /\ report' = Some(IF Unwrap(latest) = Unwrap(current)
                                  THEN "already_latest" ELSE "local_newer")
                /\ url' = url
           ELSE IF dry_run
           THEN /\ SelfUpdateReturns(OkResult)
                /\ report' = Some("would_update")
                /\ url' = build_self_update_url(su_latest, system_info)
           ELSE /\ pc' = "su_permission"
                /\ UNCHANGED << url, report, ret >>
    /\ UNCHANGED << cfg_vars, apps, this_app, results, last_result, status,
                    effects, rate_seen, su_latest, exe_file, backup_file,
                    cmp_vars >>

\* A self_update without the write-permission test.
CanReplaceUnchecked(perm) == TRUE

\* The write-permission test on the current executable: its metadata can
\* be read and do not say read-only.
CanReplace(perm) == perm = "writable"

\* self_update: current_exe() and the write-permission check.
SelfUpdateChecksPermission ==
    /\ pc = "su_permission"
    /\ \E exe_known \in BOOLEAN :
          IF ~ exe_known
          THEN effects' = effects /\ SelfUpdateReturns(Err("io", 0))
          ELSE /\ effects' = effects \cup {"perm_check"}
               /\ IF CanReplace(exe_perm)
                  THEN pc' = "su_download" /\ ret' = ret
                  ELSE SelfUpdateReturns(Err("permission_denied", 0))
    /\ UNCHANGED << cfg_vars, apps, this_app, results, last_result, status, url,
                    report, rate_seen, su_latest, exe_file, backup_file,
                    cmp_vars >>

\* self_update: the URL, the temporary directory and the archive request.
SelfUpdateDownloads ==
    /\ pc = "su_download"
    /\ url' = build_self_update_url(su_latest, system_info)
    /\ \E temp_dir \in BOOLEAN, a \in ArchiveAnswers :
          IF ~ temp_dir
          THEN effects' = effects /\ SelfUpdateReturns(Err("io", 0))
          ELSE /\ effects' = effects \cup {"archive_req"}
               /\ IF IsErr(ArchiveRequestResult(a))
                  THEN SelfUpdateReturns(ArchiveRequestResult(a))
                  ELSE pc' = "su_extract" /\ ret' = ret
    /\ UNCHANGED << cfg_vars, apps, this_app, results, last_result, status,
                    report, rate_seen, su_latest, exe_file, backup_file,
                    cmp_vars >>

\* The extractor self_update picks from the end of the URL.
self_archive_format(u) ==
    IF EndsWith(u, ".tar.gz") THEN "tar_gz"
    ELSE IF EndsWith(u, ".zip") THEN "zip"
    ELSE "unsupported"

\* Under which name, if any, the new binary is in the extracted tree.
ExtractedBinaries == {"rs-gh-app", "gh-app-installer", "none"}

\* self_update: the extraction and the search of the new binary; then the
\* replacement starts, with the rename on windows, with the copy elsewhere.
SelfUpdateExtracts ==
    /\ pc = "su_extract"
    /\ \E unpacked \in BOOLEAN, found \in ExtractedBinaries :
          IF self_archive_format(url) = "unsupported"
          THEN effects' = effects /\ SelfUpdateReturns(Err("unsupported_format", 0))
          ELSE /\ effects' = effects \cup {"extract", "extract_" \o self_archive_format(url)}
               /\ IF ~ unpacked THEN SelfUpdateReturns(Err("extraction", 0))
                  ELSE IF found = "none"
                  THEN SelfUpdateReturns(Err("binary_not_found", 0))
                  ELSE /\ pc' = IF IsWindows(system_info) THEN "su_backup" ELSE "su_copy"
                       /\ ret' = ret
    /\ UNCHANGED << cfg_vars, apps, this_app, results, last_result, status, url,
                    report, rate_seen, su_latest, exe_file, backup_file,
                    cmp_vars >>

\* windows: a backup left at the backup path is removed.
SelfUpdateRemovesOldBackup ==
    /\ pc = "su_backup"
    /\ IF backup_file = "absent"
       THEN pc' = "su_rename" /\ UNCHANGED << backup_file, ret >>
       ELSE \E removed \in BOOLEAN :
               IF removed
               THEN backup_file' = "absent" /\ pc' = "su_rename" /\ ret' = ret
               ELSE backup_file' = backup_file /\ SelfUpdateReturns(Err("io", 0))
    /\ UNCHANGED << cfg_vars, apps, this_app, results, last_result, status, url,
                    effects, report, rate_seen, su_latest, exe_file,
                    cmp_vars >>

\* windows: the current executable is renamed to the backup path.
SelfUpdateRenames ==
    /\ pc = "su_rename"
    /\ \E renamed \in BOOLEAN :
          IF renamed
          THEN /\ backup_file' = exe_file
               /\ exe_file' = "absent"
               /\ pc' = "su_copy"
               /\ ret' = ret
          ELSE /\ UNCHANGED << backup_file, exe_file >>
               /\ SelfUpdateReturns(Err("io", 0))
    /\ UNCHANGED << cfg_vars, apps, this_app, results, last_result, status, url,
                    effects, report, rate_seen, su_latest, cmp_vars >>

\* fs::copy(new_binary_path, current_exe), first half: the file at the
\* path of the executable is created or truncated for writing.
SelfUpdateOpensTarget ==
    /\ pc = "su_copy"
    /\ \E opened \in BOOLEAN :
          IF opened
          THEN exe_file' = "partial" /\ pc' = "su_copy_write" /\ ret' = ret
          ELSE exe_file' = exe_file /\ SelfUpdateReturns(Err("io", 0))
    /\ UNCHANGED << cfg_vars, apps, this_app, results, last_result, status, url,
                    effects, report, rate_seen, su_latest, backup_file,
                    cmp_vars >>

\* fs::copy, second half: the bytes of the new binary are written.
SelfUpdateWritesTarget ==
    /\ pc = "su_copy_write"
    /\ \E written \in BOOLEAN :
          IF written
          THEN /\ exe_file' = "new"
               /\ pc' = IF IsWindows(system_info) THEN "su_cleanup" ELSE "su_chmod"
               /\ ret' = ret
          ELSE exe_file' = exe_file /\ SelfUpdateReturns(Err("io", 0))
    /\ UNCHANGED << cfg_vars, apps, this_app, results, last_result, status, url,
                    effects, report, rate_seen, su_latest, backup_file,
                    cmp_vars >>

\* windows: `let _ = fs::remove_file(&backup_path)`, then Ok(()).
SelfUpdateRemovesBackup ==
    /\ pc = "su_cleanup"
    /\ \E removed \in BOOLEAN :
          backup_file' = IF removed THEN "absent" ELSE backup_file
    /\ SelfUpdateReturns(OkResult)
    /\ UNCHANGED << cfg_vars, apps, this_app, results, last_result, status, url,
                    effects, report, rate_seen, su_latest, exe_file,
                    cmp_vars >>

\* not windows: the mode of the new executable is set to 0o755, then Ok(()).
SelfUpdateSetsMode ==
    /\ pc = "su_chmod"
    /\ \E done \in BOOLEAN :
          SelfUpdateReturns(IF done THEN OkResult ELSE Err("io", 0))
    /\ UNCHANGED << cfg_vars, apps, this_app, results, last_result, status, url,
                    effects, report, rate_seen, su_latest, exe_file,
                    backup_file, cmp_vars >>

\* ------------------------------------------------------ the specification

Next ==
    \/ EnterLoop
    \/ NextApp
    \/ TakeResult
    \/ LoopReturns
    \/ GetAppStatus
    \/ QueryRateLimit
    \/ QueryLatestRelease
    \/ CheckReports
    \/ InstallDecides
    \/ Preview
    \/ ExecuteAppCommands
    \/ ExecuteAppScript
    \/ DownloadArchive
    \/ ExtractArchive
    \/ PlaceBinary
    \/ VerifyInstall
    \/ SelfUpdateStarts
    \/ SelfUpdateCompares
    \/ SelfUpdateChecksPermission
    \/ SelfUpdateDownloads
    \/ SelfUpdateExtracts
    \/ SelfUpdateRemovesOldBackup
    \/ SelfUpdateRenames
    \/ SelfUpdateOpensTarget
    \/ SelfUpdateWritesTarget
    \/ SelfUpdateRemovesBackup
    \/ SelfUpdateSetsMode

Spec == Init /\ [][Next]_vars

\* ------------------------------------------------- properties of the runs

\* What install_app can do once the status is resolved: the archive
\* request and its extraction, the write and chmod in the binaries
\* directory, the fetch and writes of a download macro, the shell, and the
\* `--version` run that verifies.
InstallEffects ==
    {"archive_req", "extract", "bin_write", "chmod", "macro_fetch",
     "macro_mkdir", "macro_write", "shell", "verify_probe"}

\* The Result of the latest-version lookup or of the application, where
\* the caller finds it.
Returned == IF command = "self_update" THEN ret ELSE last_result

\* C1: in a dry run of install, install_app does nothing after the status
\* is resolved: no download, no extraction, no subprocess, no write, and a
\* download macro of a previewed command or script fetches and writes
\* nothing.
C1_DryRunDoesNothing ==
    (command = "install" /\ dry_run) => effects \cap InstallEffects = {}

\* C2: while the executable is being replaced, a complete copy of the
\* original is at the path of the executable or at the backup path.
C2_OriginalSurvivesReplacement ==
    (command = "self_update" /\ exe_file # "new")
        => (exe_file = "old" \/ backup_file = "old")

\* C3: the archive is requested only after the write-permission check
\* passed; with an executable that is read-only or without metadata the
\* check ends self_update with the permission error, and no archive is
\* requested, nothing is extracted and the executable stays as it was.
C3_PermissionCheckedBeforeDownload ==
    command = "self_update" =>
        /\ "archive_req" \in effects =>
               ("perm_check" \in effects /\ exe_perm = "writable")
        /\ exe_perm # "writable" =>
               /\ effects \cap {"archive_req", "extract"} = {}
               /\ exe_file = "old"
               /\ backup_file # "old"
               /\ "perm_check" \in effects =>
                      (pc = "done" /\ ret = Some(Err("permission_denied", 0)))

C3_Witness ==
    /\ command = "self_update"
    /\ ~ dry_run
    /\ exe_perm = "readonly"
    /\ "perm_check" \in effects
    /\ ret = Some(Err("permission_denied", 0))

\* C4: when the latest release is the running version, self_update returns
\* Ok with the already-latest message, with or without dry_run, and has
\* requested no archive, made no backup and left the executable alone.
C4_CurrentVersionIsLeftAlone ==
    (/\ command = "self_update"
     /\ IsSome(VersionParse(su_latest))
     /\ VersionParse(su_latest) = VersionParse(self_version))
        => /\ pc \in {"su_compare", "done"}
           /\ effects \cap {"perm_check", "archive_req", "extract"} = {}
           /\ exe_file = "old"
           /\ backup_file # "old"
           /\ pc = "done" =>
                  (ret = Some(OkResult) /\ report = Some("already_latest"))

C4_Witness ==
    /\ command = "self_update"
    /\ ~ dry_run
    /\ su_latest = self_version
    /\ pc = "done"
    /\ report = Some("already_latest")

\* C5: an application whose resolved status is pixi-managed is skipped by
\* install_app: Ok with the pixi line printed, and no download, command,
\* script or write, whatever the versions, the method and dry_run.
C5_PixiManagedIsSkipped ==
    (command = "install" /\ status.resolved /\ status.pixi_managed)
        => /\ effects \cap InstallEffects = {}
           /\ pc \in {"status_ready", "app_done"}
           /\ pc = "app_done" =>
                  (last_result = Some(OkResult) /\ report = Some("pixi_managed"))

C5_Witness ==
    /\ command = "install"
    /\ ~ dry_run
    /\ status.pixi_managed
    /\ IsNone(status.current_version)
    /\ installation_method(Unwrap(this_app)) = "Commands"
    /\ last_result = Some(OkResult)

\* C6: for an application without repository, commands and script the
\* latest version stays indeterminate, no network request is made, install
\* does nothing, and check does not report a version as latest.
C6_BareAppIsLeftAlone ==
    (/\ IsSome(this_app)
     /\ ~ has_repo(Unwrap(this_app))
     /\ installation_method(Unwrap(this_app)) = "Template")
        => /\ effects \cap ({"rate_limit_req", "release_req"} \cup InstallEffects) = {}
           /\ status.resolved => status.latest_version = Some("unknown")
           /\ report \notin {Some("already_latest"), Some("update_available")}

\* C7: with stop_on_error, the first Err of an application ends
\* install_apps / check_apps: the batch returns that Err, and no
\* application after it is taken from the list.
C7_StopsAtFirstFailure ==
    (command \in {"install", "check"} /\ stop_on_error) =>
        /\ \A i \in 1..Len(results) :
              results[i] = "err" =>
                  /\ i = Len(results)
                  /\ pc = "done"
                  /\ ret = last_result
                  /\ IsErr(Unwrap(ret))
                  /\ Len(apps) = n_apps - i
        /\ (pc = "done" /\ Len(results) < n_apps) => IsErr(Unwrap(ret))

C7_Witness ==
    /\ command = "install"
    /\ stop_on_error
    /\ pc = "done"
    /\ results = << "err" >>
    /\ n_apps = 2
    /\ Len(apps) = 1

\* C8: without stop_on_error, install_apps ends with every application of
\* the list processed, each once, and returns Ok.
C8_EveryAppIsProcessed ==
    (command = "install" /\ ~ stop_on_error /\ pc \in {"done", "panicked"})
        => /\ Len(results) = n_apps
           /\ apps = << >>
           /\ ret = Some(OkResult)

\* C9: the release query is sent only after the rate-limit query, and a
\* rate-limit answer with a remaining count of 0 ends the lookup with the
\* rate-limit error that carries the reset time, no release query sent.
C9_RateLimitGuardsReleaseQuery ==
    /\ (pc = "release" \/ "release_req" \in effects) => "rate_limit_req" \in effects
    /\ (IsSome(rate_seen) /\ Unwrap(rate_seen).remaining = Some(0)) =>
           /\ pc \in {"app_done", "done"}
           /\ "release_req" \notin effects
           /\ Returned = Some(Err("rate_limited", UnwrapOr(Unwrap(rate_seen).reset, 0)))

C9_Witness ==
    /\ IsSome(rate_seen)
    /\ Unwrap(rate_seen).remaining = Some(0)
    /\ Unwrap(rate_seen).reset = Some(1000)
    /\ "release_req" \notin effects
    /\ Returned = Some(Err("rate_limited", 1000))


\* ------------------------------------------- version comparison (app.rs)

\* Characters of the compared texts: digits and dots as the version
\* extractor produces them.
VerChars == {"0", "1", "."}

VerTexts == TextsUpTo(VerChars, MaxVerLen)

OptVerTexts == {None} \cup { Some(t) : t \in VerTexts }

InitVersion ==
    /\ vs_current \in OptVerTexts
    /\ vs_latest \in OptVerTexts
    /\ vs_result = None
    /\ fn_in = None
    /\ fn_out = None
    /\ IdleRun

CallIsVersionUpdateNeeded ==
    /\ vs_result = None
    /\ vs_result' = Some(is_version_update_needed(vs_current, vs_latest))
    /\ UNCHANGED << vs_current, vs_latest, fn_in, fn_out, run_vars >>

NextVersion == CallIsVersionUpdateNeeded

SpecVersion == InitVersion /\ [][NextVersion]_vars

\* C10: is_version_update_needed is false for two equal texts (valid
\* semantic versions or not), true when both parse and latest > current,
\* false when latest is absent, true when current is absent and latest is
\* present, and exactly text inequality when one of the two does not parse.
C10_UpdateNeededPolicy ==
    IsSome(vs_result) =>
        LET r == Unwrap(vs_result)
        IN  /\ (IsSome(vs_current) /\ vs_current = vs_latest) => ~ r
            /\ IsNone(vs_latest) => ~ r
            /\ (IsNone(vs_current) /\ IsSome(vs_latest)) => r
            /\ (IsSome(vs_current) /\ IsSome(vs_latest)) =>
                  LET c == VersionParse(Unwrap(vs_current))
                      l == VersionParse(Unwrap(vs_latest))
                  IN  /\ (IsSome(c) /\ IsSome(l)
                            /\ VersionGt(Unwrap(l), Unwrap(c))) => r
                      /\ (IsNone(c) \/ IsNone(l)) =>
                            (r <=> Unwrap(vs_current) # Unwrap(vs_latest))

\* C10 witness: a call on two equal valid versions has returned.
C10_Witness ==
    /\ IsSome(vs_result)
    /\ IsSome(vs_current)
    /\ vs_current = vs_latest
    /\ IsSome(VersionParse(Unwrap(vs_current)))

\* ---------------------------------- version extraction on its own (app.rs)

\* The pieces the examined texts are made of: two- and three-part
\* versions, a run of six digits, a dot, a blank, and the words that
\* stand before versions.
ExtractPieces == {"1.2", "2.3.4", "123456", ".", " ", "v", "version"}

\* Largest number of pieces in a text.
MaxPieces == 4

ExtractTexts == TextsUpTo(ExtractPieces, MaxPieces)

\* The variables of the runs and of the version comparison, at rest.
IdleOthers ==
    /\ IdleRun
    /\ vs_current = None
    /\ vs_latest = None
    /\ vs_result = None

InitExtract ==
    /\ fn_in \in ExtractTexts
    /\ fn_out = None
    /\ IdleOthers

\* extract_version_from_string of app.rs is called on the text.
CallAppExtract ==
    /\ fn_out = None
    /\ fn_out' = Some([by |-> "app.rs", value |-> app_extract_version_from_string(fn_in)])
    /\ UNCHANGED << fn_in, vs_current, vs_latest, vs_result, run_vars >>

\* extract_version_from_string of main.rs is called on the text.
CallMainExtract ==
    /\ fn_out = None
    /\ fn_out' = Some([by |-> "main.rs", value |-> extract_version_from_string(fn_in)])
    /\ UNCHANGED << fn_in, vs_current, vs_latest, vs_result, run_vars >>

NextExtract == CallAppExtract \/ CallMainExtract

SpecExtract == InitExtract /\ [][NextExtract]_vars

\* Number of dots of a text.
DotCount(s) == Cardinality({ i \in 1..Len(s) : Char(s, i) = "." })

\* A text holds a major.minor.patch token: three runs of one to five
\* digits with dots between them start somewhere in it.
HasThreePart(s) == \E i \in 1..Len(s) : VersionMatchesAt(s, i) # {}

\* The first position of s where a major.minor.patch token starts.
FirstThreePart(s) ==
    CHOOSE i \in 1..Len(s) :
        VersionMatchesAt(s, i) # {} /\ \A j \in 1..(i - 1) : VersionMatchesAt(s, j) = {}

\* C11: for a text that holds a major.minor.patch token, the extractor of
\* app.rs returns the first such token, with its build part when it has
\* one, and never a two-part match; a two-part version is returned only
\* for a text without any three-part token.
C11_ThreePartBeforeTwoPart ==
    (IsSome(fn_out) /\ Unwrap(fn_out).by = "app.rs") =>
        LET r == Unwrap(fn_out).value
        IN  IF HasThreePart(fn_in)
            THEN /\ IsSome(r)
                 /\ DotCount(Unwrap(r)) \in {2, 3}
                 /\ MatchesAt(fn_in, Unwrap(r), FirstThreePart(fn_in))
                 /\ LET e == FirstThreePart(fn_in) + Len(Unwrap(r)) - 1
                    IN  (MatchesAt(fn_in, ".", e + 1) /\ DigitsAt(fn_in, e + 2, 1))
                            => DotCount(Unwrap(r)) = 3
            ELSE IsSome(r) => DotCount(Unwrap(r)) = 1

\* C11 witness: a two-part token stands before the three-part one.
C11_Witness ==
    /\ fn_in = "1.2 v2.3.4"
    /\ IsSome(fn_out)
    /\ Unwrap(fn_out) = [by |-> "app.rs", value |-> Some("2.3.4")]

\* The maximal runs of digits and dots of a text that hold a dot, each as
\* << first, last >>.
DottedTokens(s) ==
    LET InToken(i) == IsDigit(Char(s, i)) \/ Char(s, i) = "."
    IN  { t \in (1..Len(s)) \X (1..Len(s)) :
            /\ t[1] <= t[2]
            /\ \A i \in t[1]..t[2] : InToken(i)
            /\ \E i \in t[1]..t[2] : Char(s, i) = "."
            /\ (t[1] = 1 \/ ~ InToken(t[1] - 1))
            /\ (t[2] = Len(s) \/ ~ InToken(t[2] + 1)) }

\* A component of the token t of s is a run of six or more digits.
HasLongComponent(s, t) == \E i \in t[1]..(t[2] - 5) : DigitsAt(s, i, 6)

\* C12: for a text whose only dotted numeric token has a component of six
\* or more digits, both extractors return nothing.
C12_LongComponentsRejected ==
    (/\ IsSome(fn_out)
     /\ Cardinality(DottedTokens(fn_in)) = 1
     /\ \A t \in DottedTokens(fn_in) : HasLongComponent(fn_in, t))
        => IsNone(Unwrap(fn_out).value)

\* ------------------------------------ asset matching on its own (github.rs)

\* The words for an operating system and for an architecture that asset
\* names are written with: the names and aliases of the matcher, and one
\* word of each kind that the matcher does not know.
OsWords == {"macos", "darwin", "osx", "linux", "windows", "win32", "win", "freebsd"}

ArchWords == {"arm64", "aarch64", "x86_64", "amd64", "arm", "armv6", "armv7", "riscv64"}

\* A word as a release writes it: lower case, upper case, or capitalised.
Spell(word, style) ==
    CASE style = "lower" \/ Len(word) = 0 -> word
      [] style = "upper" -> to_uppercase(word)
      [] style = "capital" ->
             to_uppercase(Char(word, 1)) \o SubSeq(word, 2, Len(word))

\* Platform::current: os and arch of the build, with a platform outside
\* the tables of the matcher; and macOS under the name detect_system_info
\* of main.rs gives it, as a caller can hand any Platform in.
Platforms ==
    [os : {"linux", "macos", "darwin", "windows", "freebsd"},
     arch : {"x86_64", "aarch64", "arm", "riscv64"}]

\* The calls of asset_matcher: an asset named after an os word and an
\* arch word, or after one of them only, and the platform.
MatcherCalls ==
    { [os_word |-> o, arch_word |-> a, platform |-> p,
       name |-> "app-" \o Spell(o, st) \o "-" \o Spell(a, st) \o ".tar.gz"]
        : o \in OsWords \cup {""}, a \in ArchWords \cup {""},
          st \in {"lower", "upper", "capital"}, p \in Platforms }

InitMatcher ==
    /\ fn_in \in MatcherCalls
    /\ fn_out = None
    /\ IdleOthers

\* asset_matcher is called.
CallAssetMatcher ==
    /\ fn_out = None
    /\ fn_out' = Some(asset_matcher(fn_in.name, fn_in.platform))
    /\ UNCHANGED << fn_in, vs_current, vs_latest, vs_result, run_vars >>

NextMatcher == CallAssetMatcher

SpecMatcher == InitMatcher /\ [][NextMatcher]_vars

\* The words of an alias list.
Words(aliases) == { aliases[i] : i \in 1..Len(aliases) }

\* C13: an asset named {os}-{arch} after the platform, in any letter case,
\* matches it; and so does an asset named after any os alias and any arch
\* alias of a platform of the alias tables.
C13_MatcherIsReflexive ==
    IsSome(fn_out) =>
        LET p == fn_in.platform
        IN  /\ (fn_in.os_word = p.os /\ fn_in.arch_word = p.arch) => Unwrap(fn_out)
            /\ (/\ p.os \in DOMAIN os_aliases
                /\ p.arch \in DOMAIN arch_aliases
                /\ fn_in.os_word \in Words(os_aliases[p.os])
                /\ fn_in.arch_word \in Words(arch_aliases[p.arch])) => Unwrap(fn_out)

\* C13 witness: APP-LINUX-AMD64.tar.gz has matched (linux, x86_64).
C13_Witness ==
    /\ fn_out = Some(TRUE)
    /\ fn_in.name = "app-LINUX-AMD64.tar.gz"
    /\ fn_in.platform = [os |-> "linux", arch |-> "x86_64"]

\* ------------------------------- platform assets on their own (github.rs)

\* Asset: the name and the browser_download_url of a release asset.
AssetNames ==
    {"app-linux-amd64.tar.gz", "app-linux-x86_64.zip",
     "app-darwin-arm64.tar.gz", "checksums.txt"}

Assets ==
    [name : AssetNames, browser_download_url : {None}]
        \cup { [name |-> n, browser_download_url |-> Some("https://h/" \o n)]
                 : n \in AssetNames }

MaxAssets == 2

\* Release.assets: the asset lists of a release.
AssetLists == UNION { [1..n -> Assets] : n \in 0..MaxAssets }

InitAssets ==
    /\ fn_in \in [assets : AssetLists,
                  platform : {[os |-> "linux", arch |-> "x86_64"],
                              [os |-> "macos", arch |-> "aarch64"]}]
    /\ fn_out = None
    /\ IdleOthers

\* find_platform_assets is called.
CallFindPlatformAssets ==
    /\ fn_out = None
    /\ fn_out' = Some(find_platform_assets(fn_in.assets, fn_in.platform))
    /\ UNCHANGED << fn_in, vs_current, vs_latest, vs_result, run_vars >>

NextAssets == CallFindPlatformAssets

SpecAssets == InitAssets /\ [][NextAssets]_vars

\* The assets of the list that match the platform and carry a download URL.
UsableMatches(assets, platform) ==
    LET Usable(asset) ==
            /\ asset_matcher(asset.name, platform)
            /\ IsSome(asset.browser_download_url)
    IN  SelectSeq(assets, Usable)

\* C14: the selection fails when no asset matches the platform or no
\* matching asset carries a download URL, and otherwise selects the first
\* matching asset that carries one.
C14_FirstUsableAssetIsSelected ==
    IsSome(fn_out) =>
        LET usable == UsableMatches(fn_in.assets, fn_in.platform)
            out    == Unwrap(fn_out)
        IN  IF usable = << >> THEN IsErr(out)
            ELSE /\ ~ IsErr(out)
                 /\ out.info = << Head(usable) >>

\* ------------------------------------ process_template on its own (main.rs)

\* PathBuf::join: an absolute path replaces the base.
PathJoin(base, path) ==
    IF MatchesAt(path, "/", 1) THEN path ELSE base \o "/" \o path

\* The templates of commands and scripts given to process_template.
Templates ==
    {"{bin}",
     "{name} {version}",
     "echo hi",
     "{binary} {unknown}",
     "{bin_path} {app_path} {os}-{arch} {suffix}",
     "{download(https://h/f, /tmp/f)} {bin}",
     "{download( https://h/{name} , {bin_dir}/f )}",
     "{download(https://h/a,/tmp/a)}{download(https://h/b,/tmp/b)}"}

\* name and bin of the apps of the configuration: plain ones, and ones
\* that are written with braces.
TemplateApps ==
    { [name |-> "rg", bin |-> "rg"],
      [name |-> "tool", bin |-> "x{version}"],
      [name |-> "{bin}", bin |-> "t"] }

\* The calls of process_template: template, app, version and system_info,
\* and whether get_bin_dir and current_dir succeed.
TemplateCalls ==
    [template : Templates, app : TemplateApps, version : {"1.0.0"},
     system_info : { si \in RunHosts : si.os = "linux" },
     home : BOOLEAN, cwd : BOOLEAN]

\* variables of process_template for a call.
TemplateVariables(call) ==
    LET bin_dir == "/h/.local/bin"
    IN  [name     |-> call.app.name,
         bin      |-> call.app.bin,
         version  |-> call.version,
         os       |-> call.system_info.os,
         arch     |-> call.system_info.arch,
         suffix   |-> call.system_info.suffix,
         bin_dir  |-> bin_dir,
         bin_path |-> PathJoin(bin_dir, call.app.bin),
         app_path |-> "/w"]

\* A substitution that takes the key without its braces.
SubstituteBare(result, key, value) == Replace(result, key, value)

\* result.replace(&format!("{{{}}}", key), &value)
Substitute(result, key, value) == Replace(result, "{" \o key \o "}", value)

\* process_template has returned.
TemplateReturned(result) ==
    [pc |-> "returned", result |-> "", todo |-> << >>, keys |-> {},
     written |-> << >>, ret |-> result]

InitTemplate ==
    /\ fn_in \in TemplateCalls
    /\ fn_out = None
    /\ IdleOthers

\* process_template is called: get_bin_dir and current_dir, the variables,
\* and the macros process_download_functions finds in the template.
TemplateEnter ==
    /\ fn_out = None
    /\ fn_out' =
          IF ~ fn_in.home THEN Some(TemplateReturned(Err("no_bin_dir", 0)))
          ELSE IF ~ fn_in.cwd THEN Some(TemplateReturned(Err("io", 0)))
          ELSE Some([pc |-> "running", result |-> fn_in.template,
                     todo |-> DownloadCaptures(fn_in.template, 1),
                     keys |-> DOMAIN TemplateVariables(fn_in),
                     written |-> << >>, ret |-> OkResult])
    /\ UNCHANGED << fn_in, vs_current, vs_latest, vs_result, run_vars >>

\* One turn of the loop of process_download_functions: download_file on
\* the captured url and dest_path, then the macro is replaced by the path
\* download_file returns; a failure of download_file ends process_template.
TemplateDownload ==
    /\ IsSome(fn_out)
    /\ Unwrap(fn_out).pc = "running"
    /\ Unwrap(fn_out).todo # << >>
    /\ LET st  == Unwrap(fn_out)
           cap == Head(st.todo)
       IN  \E failure \in DownloadFailures \cup {"none"} :
              fn_out' =
                 IF failure # "none" THEN Some(TemplateReturned(Err(failure, 0)))
                 ELSE Some([st EXCEPT
                        !.result = Replace(st.result, cap.full, cap.dest_path),
                        !.todo = Tail(st.todo),
                        !.written = Append(st.written,
                            [url |-> cap.url, dest_path |-> cap.dest_path])])
    /\ UNCHANGED << fn_in, vs_current, vs_latest, vs_result, run_vars >>

\* One turn of the loop over the variables: the HashMap gives its entries
\* in an order that is not fixed.
TemplateSubstitute ==
    /\ IsSome(fn_out)
    /\ Unwrap(fn_out).pc = "running"
    /\ Unwrap(fn_out).todo = << >>
    /\ LET st == Unwrap(fn_out)
       IN  \E key \in st.keys :
              fn_out' = Some([st EXCEPT
                  !.result = Substitute(st.result, key, TemplateVariables(fn_in)[key]),
                  !.keys = st.keys \ {key}])
    /\ UNCHANGED << fn_in, vs_current, vs_latest, vs_result, run_vars >>

\* Ok(result)
TemplateReturn ==
    /\ IsSome(fn_out)
    /\ Unwrap(fn_out).pc = "running"
    /\ Unwrap(fn_out).todo = << >>
    /\ Unwrap(fn_out).keys = {}
    /\ fn_out' = Some([Unwrap(fn_out) EXCEPT
                          !.pc = "returned",
                          !.ret = [kind |-> "ok", info |-> Unwrap(fn_out).result]])
    /\ UNCHANGED << fn_in, vs_current, vs_latest, vs_result, run_vars >>

NextTemplate ==
    \/ TemplateEnter
    \/ TemplateDownload
    \/ TemplateSubstitute
    \/ TemplateReturn

SpecTemplate == InitTemplate /\ [][NextTemplate]_vars

\* process_template has returned Ok.
RenderedOk == IsSome(fn_out) /\ Unwrap(fn_out).pc = "returned" /\ ~ IsErr(Unwrap(fn_out).ret)

\* The text process_template has returned.
Rendered == Unwrap(fn_out).ret.info

\* C15: the template {bin} renders to the bin of the app, whatever the
\* values of the variables contain.
C15_BinRendersToBin ==
    (RenderedOk /\ fn_in.template = "{bin}") => Rendered = fn_in.app.bin

\* The names of the variables a template may use.
RecognisedKeys ==
    {"name", "bin", "version", "os", "arch", "suffix", "bin_dir", "bin_path", "app_path"}

\* A template with no {key} of a variable and no download macro.
IsStatic(template) ==
    /\ \A key \in RecognisedKeys : ~ Contains(template, "{" \o key \o "}")
    /\ ~ Contains(template, "{download(")

\* C16: a template with no recognised {key} and no download macro is
\* returned as it is, unknown {key} tokens included, and process_template
\* does not fail on it when the bin directory and the working directory
\* are known.
C16_StaticTemplateUnchanged ==
    (IsSome(fn_out) /\ Unwrap(fn_out).pc = "returned" /\ IsStatic(fn_in.template)) =>
        /\ RenderedOk => Rendered = fn_in.template
        /\ (fn_in.home /\ fn_in.cwd) => RenderedOk

\* C16 witness: {binary} {unknown} has been returned as it is.
C16_Witness ==
    /\ RenderedOk
    /\ fn_in.template = "{binary} {unknown}"
    /\ Rendered = "{binary} {unknown}"

\* The text between "{download(" and ")}" of a macro, split at its first
\* comma: << before, after >>.
MacroArguments(full) ==
    LET inner == SubSeq(full, Len("{download(") + 1, Len(full) - 2)
        comma == FirstAtOrAfter(inner, ",", 1)
    IN  << SubSeq(inner, 1, comma - 1), SubSeq(inner, comma + 1, Len(inner)) >>

\* C17: every download macro is fetched and written before any {key} is
\* substituted; its url and destination are the raw texts before and after
\* its first comma, trimmed; and the returned text holds, for each macro,
\* the destination path that was written to.
C17_MacrosRunFirstOnRawText ==
    IsSome(fn_out) =>
        LET st   == Unwrap(fn_out)
            caps == DownloadCaptures(fn_in.template, 1)
        IN  /\ (st.pc = "running" /\ st.keys # RecognisedKeys) => st.todo = << >>
            /\ \A i \in 1..Len(st.written) :
                  /\ st.written[i].url = Trim(MacroArguments(caps[i].full)[1])
                  /\ st.written[i].dest_path = Trim(MacroArguments(caps[i].full)[2])
            /\ RenderedOk =>
                  /\ Len(st.written) = Len(caps)
                  /\ \A i \in 1..Len(st.written) :
                        Contains(Rendered, st.written[i].dest_path)

\* ------------------------------------ the archive of an install (main.rs)

\* Applications installed from a release archive, by the end of their
\* template: the four supported suffixes, and others.
ArchiveApps ==
    { MkApp("rg", Some("o/rg"), None, None, None, None) }
    \cup { MkApp("ar", Some("o/ar"), Some("{bin}-{version}" \o suffix), None, None, None)
             : suffix \in {".tgz", ".tar", ".zip", ".7z", ".ZIP", ".tar.gz.sig", ""} }

\* An install, not a dry run, of one application of ArchiveApps, or a
\* self-update.
InitArchive ==
    /\ command \in {"install", "self_update"}
    /\ dry_run = FALSE
    /\ stop_on_error \in (IF command = "self_update" THEN {FALSE} ELSE BOOLEAN)
    /\ system_info \in (IF command = "self_update" THEN detect_system_info
                                                    ELSE RunHosts)
    /\ apps \in (IF command = "self_update" THEN {<< >>}
                 ELSE { << app >> : app \in ArchiveApps })
    /\ n_apps = Len(apps)
    /\ this_app = None
    /\ pc = "start"
    /\ status = NoStatus
    /\ url = ""
    /\ effects = {}
    /\ report = None
    /\ rate_seen = None
    /\ last_result = None
    /\ results = << >>
    /\ ret = None
    /\ self_version \in (IF command = "self_update" THEN SelfVersions ELSE {"1.0.0"})
    /\ su_latest = ""
    /\ exe_file = "old"
    /\ exe_perm \in (IF command = "self_update"
                       THEN {"writable", "readonly", "no_metadata"} ELSE {"writable"})
    /\ backup_file \in (IF command = "self_update" THEN {"absent", "stale"} ELSE {"absent"})
    /\ vs_current = None
    /\ vs_latest = None
    /\ vs_result = None
    /\ fn_in = None
    /\ fn_out = None

NextArchive ==
    \/ EnterLoop
    \/ NextApp
    \/ TakeResult
    \/ LoopReturns
    \/ GetAppStatus
    \/ QueryRateLimit
    \/ QueryLatestRelease
    \/ InstallDecides
    \/ DownloadArchive
    \/ ExtractArchive
    \/ PlaceBinary
    \/ VerifyInstall
    \/ SelfUpdateStarts
    \/ SelfUpdateCompares
    \/ SelfUpdateChecksPermission
    \/ SelfUpdateDownloads
    \/ SelfUpdateExtracts
    \/ SelfUpdateRemovesOldBackup
    \/ SelfUpdateRenames
    \/ SelfUpdateOpensTarget
    \/ SelfUpdateWritesTarget
    \/ SelfUpdateRemovesBackup
    \/ SelfUpdateSetsMode

SpecArchive == InitArchive /\ [][NextArchive]_vars

\* The extractors that have run.
ExtractorsRun == effects \cap {"extract_tar_gz", "extract_tar", "extract_zip"}

\* C18: the extractor that runs is the one of the suffix of the URL,
\* .tar.gz or .tgz, .tar, .zip; with any other suffix nothing is extracted,
\* nothing is written in the binaries directory, and the install fails
\* with the unsupported-format error, which no other URL gives.
C18_ExtractorFollowsUrlSuffix ==
    LET tar_gz == EndsWith(url, ".tar.gz") \/ EndsWith(url, ".tgz")
        tar    == EndsWith(url, ".tar")
        zip    == EndsWith(url, ".zip")
    IN  /\ ExtractorsRun \subseteq
              (IF tar_gz THEN {"extract_tar_gz"}
               ELSE IF tar THEN {"extract_tar"}
               ELSE IF zip THEN {"extract_zip"}
               ELSE {})
        /\ ("extract" \in effects) <=> (ExtractorsRun # {})
        /\ (url # "" /\ ~ (tar_gz \/ tar \/ zip)) =>
              /\ effects \cap {"extract", "bin_write", "chmod"} = {}
              /\ Returned # Some(OkResult)
        /\ (Returned = Some(Err("unsupported_format", 0))) =>
              /\ url # ""
              /\ ~ (tar_gz \/ tar \/ zip)
              /\ "archive_req" \in effects

\* C18 witness: the install of an application whose URL ends in .7z has
\* failed with the unsupported-format error after the download.
C18_Witness ==
    /\ command = "install"
    /\ EndsWith(url, ".7z")
    /\ Returned = Some(Err("unsupported_format", 0))
    /\ "archive_req" \in effects
    /\ "bin_write" \notin effects

\* ------------------------------ find_binary_in_extracted on its own (main.rs)

\* The names of the extracted files, for the binary name rg.
ExtractedFileNames == {"rg", "rg.exe", "README"}

\* The names of the extracted directories.
ExtractedDirNames == {"d", "rg"}

\* The entries read_dir can give with the entries below them as children:
\* a regular file, something that is neither a file nor a directory, or a
\* directory, which read_dir can or cannot read.
EntriesOver(children) ==
    (IF children = << >>
     THEN [name : ExtractedFileNames, kind : {"file"}, readable : {TRUE},
           children : {<< >>}]
          \cup [name : {"rg"}, kind : {"other"}, readable : {TRUE},
                children : {<< >>}]
     ELSE {})
    \cup [name : ExtractedDirNames, kind : {"dir"}, readable : BOOLEAN,
          children : {children}]

\* The extracted trees of at most n entries, every directory in the order
\* read_dir gives its entries.
RECURSIVE ExtractedTrees(_)
ExtractedTrees(n) ==
    IF n = 0 THEN {<< >>}
    ELSE {<< >>} \cup
         UNION { { << first >> \o rest :
                     first \in UNION { EntriesOver(below) : below \in ExtractedTrees(k) },
                     rest \in ExtractedTrees(n - 1 - k) }
                 : k \in 0..(n - 1) }

MaxEntries == 3

\* A search that does not enter the directories.
RECURSIVE search_top_level(_, _, _)
search_top_level(entries, dir, bin_name) ==
    IF entries = << >> THEN [kind |-> "ok", info |-> None]
    ELSE LET entry == Head(entries)
             path  == dir \o "/" \o entry.name
         IN  IF /\ entry.kind = "file"
                /\ (entry.name = bin_name \/ entry.name = bin_name \o ".exe")
             THEN [kind |-> "ok", info |-> Some(path)]
             ELSE search_top_level(Tail(entries), dir, bin_name)

\* search_recursive of find_binary_in_extracted, on the entries of a
\* directory that read_dir has given: Ok(Some(path)), Ok(None), or the
\* error of a read_dir below.
RECURSIVE search_recursive(_, _, _)
search_recursive(entries, dir, bin_name) ==
    IF entries = << >> THEN [kind |-> "ok", info |-> None]
    ELSE LET entry == Head(entries)
             path  == dir \o "/" \o entry.name
         IN  IF entry.kind = "file"
             THEN IF entry.name = bin_name \/ entry.name = bin_name \o ".exe"
                  THEN [kind |-> "ok", info |-> Some(path)]
                  ELSE search_recursive(Tail(entries), dir, bin_name)
             ELSE IF entry.kind = "dir"
             THEN IF ~ entry.readable THEN Err("io", 0)
                  ELSE LET found == search_recursive(entry.children, path, bin_name)
                       IN  IF IsErr(found) \/ IsSome(found.info) THEN found
                           ELSE search_recursive(Tail(entries), dir, bin_name)
             ELSE search_recursive(Tail(entries), dir, bin_name)

\* find_binary_in_extracted on the temporary directory, which read_dir has
\* just listed.
find_binary_in_extracted(tree, dir, bin_name) ==
    LET found == search_recursive(tree, dir, bin_name)
    IN  IF IsErr(found) THEN found
        ELSE IF IsSome(found.info) THEN [kind |-> "ok", info |-> Unwrap(found.info)]
        ELSE Err("binary_not_found", 0)

InitLocate ==
    /\ fn_in \in [tree : ExtractedTrees(MaxEntries), dir : {"/t"}, bin : {"rg"}]
    /\ fn_out = None
    /\ IdleOthers

\* download_and_install after the extraction: find_binary_in_extracted,
\* and fs::copy of what it found into the binaries directory.
LocateAndCopy ==
    /\ fn_out = None
    /\ LET found == find_binary_in_extracted(fn_in.tree, fn_in.dir, fn_in.bin)
       IN  IF IsErr(found)
           THEN fn_out' = Some([found |-> found, copied |-> None, ret |-> found])
           ELSE \E copy_done \in BOOLEAN :
                   fn_out' = Some([found |-> found, copied |-> Some(found.info),
                                   ret |-> IF copy_done THEN OkResult
                                           ELSE Err("io", 0)])
    /\ UNCHANGED << fn_in, vs_current, vs_latest, vs_result, run_vars >>

NextLocate == LocateAndCopy

SpecLocate == InitLocate /\ [][NextLocate]_vars

\* The paths of the regular files of a tree that are named bin_name or
\* bin_name.exe, at any depth.
RECURSIVE BinaryPaths(_, _, _)
BinaryPaths(tree, dir, bin_name) ==
    UNION { LET entry == tree[i]
                path  == dir \o "/" \o entry.name
            IN  (IF entry.kind = "file" /\ entry.name \in {bin_name, bin_name \o ".exe"}
                 THEN {path} ELSE {})
                \cup BinaryPaths(entry.children, path, bin_name)
            : i \in 1..Len(tree) }

\* Every directory of the tree can be read.
RECURSIVE AllReadable(_)
AllReadable(tree) ==
    \A i \in 1..Len(tree) : tree[i].readable /\ AllReadable(tree[i].children)

version_flags == << "--version", "-V", "-v", "version" >>

NoArguments == ""

Invocations == version_flags \o << NoArguments >>

\* What an invocation of a binary that exists does: it prints a version on
\* stdout, on stderr, on both or on neither and exits with success, or it
\* prints on both and exits with a failure.
RunKinds == {"out", "err", "both", "silent", "failed"}

\* The binaries: a missing one, and those that exist, by what each of the
\* five invocations does.
DetectCalls ==
    { [present |-> FALSE, runs |-> [i \in 1..Len(Invocations) |-> "failed"]] }
    \cup [present : {TRUE}, runs : [1..Len(Invocations) -> RunKinds]]

\* Command::output of the i-th invocation; the versions it prints name the
\* invocation.
Output(call, i) ==
    LET n    == << "1", "2", "3", "4", "5" >>[i]
        kind == call.runs[i]
    IN  [spawned |-> call.present,
         success |-> call.present /\ kind # "failed",
         stdout  |-> IF kind \in {"out", "both", "failed"}
                     THEN "tool 1." \o n \o ".0" ELSE "",
         stderr  |-> IF kind \in {"err", "both", "failed"}
                     THEN "tool 2." \o n \o ".0" ELSE ""]

\* extract_version_from_string on the stdout and on the stderr of a run.
Extracted(o) ==
    [stream \in {"stdout", "stderr"} |-> app_extract_version_from_string(o[stream])]

\* stdout first, then stderr.
FirstOf(extracted) ==
    IF IsSome(extracted["stdout"]) THEN extracted["stdout"] ELSE extracted["stderr"]

\* The version a run yields, when it could be spawned.
ExtractFromOutput(o) == IF o.spawned THEN FirstOf(Extracted(o)) ELSE None

\* get_current_version_with_debug from the i-th invocation on: the version
\* and the invocations made.  A flag counts when its run was spawned, exited
\* with success and printed a version; the run without arguments when it
\* was spawned and printed one.
RECURSIVE DetectFrom(_, _, _)
DetectStep(call, i, made, success, version) ==
    IF i <= Len(version_flags)
    THEN IF success /\ IsSome(version)
         THEN [version |-> version, invoked |-> made]
         ELSE DetectFrom(call, i + 1, made)
    ELSE [version |-> version, invoked |-> made]

DetectFrom(call, i, invoked) ==
    DetectStep(call, i, Append(invoked, Invocations[i]),
               Output(call, i).success, ExtractFromOutput(Output(call, i)))

\* get_current_version_with_debug of app.rs.
get_current_version_with_debug(call) == DetectFrom(call, 1, << >>)

InitDetect ==
    /\ fn_in \in DetectCalls
    /\ fn_out = None
    /\ IdleOthers

\* get_status of app.rs detects the current version.
CallAppDetect ==
    /\ fn_out = None
    /\ fn_out' = Some([by |-> "app.rs"] @@ get_current_version_with_debug(fn_in))
    /\ UNCHANGED << fn_in, vs_current, vs_latest, vs_result, run_vars >>

\* get_app_status and install_app of main.rs detect the current version:
\* get_current_version runs `bin --version` only.
CallMainDetect ==
    /\ fn_out = None
    /\ fn_out' = Some([by |-> "main.rs",
                       version |-> get_current_version(Output(fn_in, 1)),
                       invoked |-> << version_flags[1] >>])
    /\ UNCHANGED << fn_in, vs_current, vs_latest, vs_result, run_vars >>

NextDetect == CallAppDetect \/ CallMainDetect

SpecDetect == InitDetect /\ [][NextDetect]_vars

\* The version an invocation yields: it was spawned, and stdout, else
\* stderr, holds a version.
Yields(call, i) ==
    LET o == Output(call, i)
        a == extract_version_from_string(o.stdout)
    IN  IF ~ o.spawned THEN None
        ELSE IF IsSome(a) THEN a
        ELSE extract_version_from_string(o.stderr)

\* The flag invocations that exit with success and yield a version.
GoodFlags(call) ==
    { i \in 1..Len(version_flags) :
          Output(call, i).success /\ IsSome(Yields(call, i)) }

\* C20: the detection returns the version of the first of --version, -V,
\* -v, version that exits with success and yields a version, stdout before
\* stderr, and invokes no later flag; it runs the binary without arguments
\* only after the four have failed; and it returns unknown when nothing
\* yields a version.
C20_FirstSuccessfulFlagWins ==
    IsSome(fn_out) =>
        LET out  == Unwrap(fn_out)
            good == GoodFlags(fn_in)
        IN  IF good # {}
            THEN LET first == CHOOSE i \in good : \A j \in good : i <= j
                 IN  /\ out.version = Yields(fn_in, first)
                     /\ out.invoked = SubSeq(Invocations, 1, first)
            ELSE /\ out.invoked = Invocations
                 /\ out.version \in {None, Yields(fn_in, Len(Invocations))}
                 /\ Output(fn_in, Len(Invocations)).success =>
                       out.version = Yields(fn_in, Len(Invocations))

\* --------------------- the latest-release query on its own (github.rs, main.rs)

\* The status codes GitHub answers the query with.
ReleaseStatuses == {200, 403, 404, 500}

\* StatusCode::as_u16 as text.
CodeText(code) ==
    CASE code = 200 -> "200" [] code = 403 -> "403"
      [] code = 404 -> "404" [] code = 500 -> "500"

\* Display of StatusCode: the code and its canonical reason.
StatusText(code) ==
    CASE code = 200 -> "200 OK"
      [] code = 403 -> "403 Forbidden"
      [] code = 404 -> "404 Not Found"
      [] code = 500 -> "500 Internal Server Error"

\* The answers to GET /repos/{repo}/releases/latest: whether the request
\* was sent, the status, the body, and the tag_name the body holds when it
\* is the JSON of a release.
QueryAnswers ==
    [sent : BOOLEAN, status : ReleaseStatuses,
     body : {"", "Not Found", "see issue 404"},
     tag_name : {None, Some("v1.0.0")}]

\* The entry points that perform the query.
QueryEntries == {"fetch_latest_release", "Release::fetch_latest", "self_update"}

\* An error with the text of its message.
Failure(text) == [kind |-> "err", text |-> text]

\* fetch_latest_release of github.rs.
fetch_latest_release(a) ==
    IF ~ a.sent THEN Failure("error sending request")
    ELSE IF a.status = 200
    THEN IF IsSome(a.tag_name)
         THEN [kind |-> "ok", release |-> [tag_name |-> Unwrap(a.tag_name)]]
         ELSE Failure("error decoding response body")
    ELSE IF a.status = 404 THEN Failure("No release found")
    ELSE Failure("GitHub API returned error " \o CodeText(a.status) \o ": " \o a.body)

\* Release::fetch_latest of github.rs: the release, or an empty one.
fetch_latest(a) ==
    IF fetch_latest_release(a).kind = "ok" THEN fetch_latest_release(a).release
    ELSE [tag_name |-> ""]

\* get_latest_version of main.rs after its rate-limit check has passed.
get_latest_version(a) ==
    IF ~ a.sent THEN Failure("error sending request")
    ELSE IF ~ is_success(a.status)
    THEN Failure("Failed to fetch latest release: HTTP " \o StatusText(a.status))
    ELSE IF IsNone(a.tag_name) THEN Failure("No tag_name found in release")
    ELSE IF IsNone(TagVersion(a.tag_name))
    THEN Failure("Could not extract version from tag: " \o Unwrap(a.tag_name))
    ELSE [kind |-> "ok", version |-> Unwrap(TagVersion(a.tag_name))]

\* self_update up to the latest version: a failure whose text holds 404 is
\* "no releases", and self_update returns Ok; any other failure is returned.
self_update_latest(found) ==
    IF found.kind = "ok" THEN found
    ELSE IF Contains(found.text, "404") THEN [kind |-> "no_releases"]
    ELSE found

\* What the caller of an entry point gets for an answer.
QueryOutcome(entry, a) ==
    CASE entry = "fetch_latest_release" -> fetch_latest_release(a)
      [] entry = "Release::fetch_latest" -> fetch_latest(a)
      [] entry = "self_update" -> self_update_latest(get_latest_version(a))

InitQuery ==
    /\ fn_in \in [entry : QueryEntries, answer : QueryAnswers]
    /\ fn_out = None
    /\ IdleOthers

\* fetch_latest_release is called.
CallFetchLatestRelease ==
    /\ fn_out = None
    /\ fn_in.entry = "fetch_latest_release"
    /\ fn_out' = Some(QueryOutcome("fetch_latest_release", fn_in.answer))
    /\ UNCHANGED << fn_in, vs_current, vs_latest, vs_result, run_vars >>

\* Release::fetch_latest is called.
CallReleaseFetchLatest ==
    /\ fn_out = None
    /\ fn_in.entry = "Release::fetch_latest"
    /\ fn_out' = Some(QueryOutcome("Release::fetch_latest", fn_in.answer))
    /\ UNCHANGED << fn_in, vs_current, vs_latest, vs_result, run_vars >>

\* self_update calls get_latest_version.
CallSelfUpdateLatest ==
    /\ fn_out = None
    /\ fn_in.entry = "self_update"
    /\ fn_out' = Some(QueryOutcome("self_update", fn_in.answer))
    /\ UNCHANGED << fn_in, vs_current, vs_latest, vs_result, run_vars >>

NextQuery ==
    \/ CallFetchLatestRelease
    \/ CallReleaseFetchLatest
    \/ CallSelfUpdateLatest

SpecQuery == InitQuery /\ [][NextQuery]_vars

\* C21: through every entry point, the outcome of an answer with another
\* non-success status differs from the outcome of the same answer with
\* status 404.
C21_NotFoundIsToldApart ==
    (/\ IsSome(fn_out)
     /\ fn_in.answer.sent
     /\ ~ is_success(fn_in.answer.status)
     /\ fn_in.answer.status # 404) =>
        Unwrap(fn_out) # QueryOutcome(fn_in.entry, [fn_in.answer EXCEPT !.status = 404])

\* ------------------------- check_pixi_managed on its own (app.rs, main.rs)

\* What the two pixi invocations give: whether each could be spawned, and
\* the exit status, stdout and stderr of `pixi global list <bin>`.
PixiRuns ==
    [version_spawned : BOOLEAN, list_spawned : BOOLEAN, list_success : BOOLEAN,
     stdout : {"", "No global environments found.", "rg 1.0.0"},
     stderr : {"", "error: environment not found"}]

\* check_pixi_managed of app.rs.
app_check_pixi_managed(o) ==
    IF ~ o.version_spawned THEN FALSE
    ELSE IF o.list_spawned
         THEN ~ Contains(o.stdout, "No global environments found")
         ELSE FALSE

InitPixi ==
    /\ fn_in \in PixiRuns
    /\ fn_out = None
    /\ IdleOthers

\* get_status of app.rs asks whether pixi manages the binary.
CallAppPixi ==
    /\ fn_out = None
    /\ fn_out' = Some([by |-> "app.rs", managed |-> app_check_pixi_managed(fn_in)])
    /\ UNCHANGED << fn_in, vs_current, vs_latest, vs_result, run_vars >>

\* get_app_status of main.rs asks whether pixi manages the binary.
CallMainPixi ==
    /\ fn_out = None
    /\ fn_out' = Some([by |-> "main.rs", managed |-> check_pixi_managed(fn_in)])
    /\ UNCHANGED << fn_in, vs_current, vs_latest, vs_result, run_vars >>

NextPixi == CallAppPixi \/ CallMainPixi

SpecPixi == InitPixi /\ [][NextPixi]_vars

\* C22: the binary is reported as managed only when pixi could be run, its
\* list command succeeded and its stdout reports the binary without the
\* "no environments" sentinel; it is reported as not managed whenever pixi
\* cannot be run or the list command fails and prints nothing on stdout.
C22_PixiCheckFailsOpen ==
    IsSome(fn_out) =>
        LET reached == fn_in.version_spawned /\ fn_in.list_spawned
        IN  /\ Unwrap(fn_out).managed =>
                  /\ reached
                  /\ fn_in.list_success
                  /\ fn_in.stdout # ""
                  /\ ~ Contains(fn_in.stdout, "No global environments found")
            /\ (~ reached \/ (~ fn_in.list_success /\ fn_in.stdout = "")) =>
                  ~ Unwrap(fn_out).managed

\* --------------------------- the install decision on its own (main.rs)

\* The versions extract_version_from_string gives for the installed binary
\* and for the latest release; the last two are no semantic versions.
DecisionVersions == {"0.9.0", "1.0.0", "1.1.0", "1.10.0", "01.0.0", "1.0"}

\* get_app_status, for an application with a repository, once the pixi
\* check, the installed version and the latest version are known.
InitDecision ==
    /\ fn_in \in [app : { a \in AppCatalog : has_repo(a) },
                  pixi_managed : BOOLEAN,
                  current_version : {None} \cup { Some(v) : v \in DecisionVersions },
                  latest_version : DecisionVersions]
    /\ fn_out = None
    /\ IdleOthers

\* get_app_status builds the AppStatus.
CallResolveStatus ==
    /\ fn_out = None
    /\ fn_out' = Some(ResolvedStatus(fn_in.app, fn_in.pixi_managed,
                                     fn_in.current_version, fn_in.latest_version))
    /\ UNCHANGED << fn_in, vs_current, vs_latest, vs_result, run_vars >>

NextDecision == CallResolveStatus

SpecDecision == InitDecision /\ [][NextDecision]_vars

\* C23: for an application with a repository that pixi does not manage,
\* needs_install is what is_version_update_needed says of the installed and
\* the latest version.
C23_DecisionFollowsComparisonPolicy ==
    (IsSome(fn_out) /\ ~ fn_in.pixi_managed) =>
        (Unwrap(fn_out).needs_install <=>
            is_version_update_needed(fn_in.current_version, Some(fn_in.latest_version)))

\* ------------------------------------------ properties of the Commands method

\* C24: for an application installed by commands, the execution and the
\* preview take a command that exists: the run never ends in the panic of
\* an unwrap() on an absent command, an application with an update command
\* only that is not installed included.
C24_AbsentCommandIsNeverUnwrapped ==
    IsSome(this_app) =>
        ~ (/\ pc = "panicked"
           /\ installation_method(Unwrap(this_app)) = "Commands"
           /\ IsNone(SelectCommand(Unwrap(this_app), is_update(status))))

\* ------------------------------------- properties of the matcher's os test

\* The operating system a word stands for: the key of os_aliases whose
\* aliases hold it, the word itself when no key does.
OsOf(word) ==
    IF \E os \in DOMAIN os_aliases : word \in Words(os_aliases[os])
    THEN CHOOSE os \in DOMAIN os_aliases : word \in Words(os_aliases[os])
    ELSE word

\* C25: an asset named after an operating system other than the one of the
\* platform never matches: not a darwin asset on windows, not a linux
\* asset on a platform whose os is given as darwin.
C25_OtherOsNeverMatches ==
    (/\ IsSome(fn_out)
     /\ fn_in.os_word # ""
     /\ OsOf(fn_in.os_word) # OsOf(fn_in.platform.os)) => ~ Unwrap(fn_out)

\* ------------------------------------------ extract_zip on its own (main.rs)

\* Path::components: the names between the separators of a path.
RECURSIVE Components(_, _, _)
Components(path, i, word) ==
    IF i > Len(path) THEN (IF word = "" THEN << >> ELSE << word >>)
    ELSE IF Char(path, i) = "/"
    THEN (IF word = "" THEN << >> ELSE << word >>) \o Components(path, i + 1, "")
    ELSE Components(path, i + 1, word \o Char(path, i))

\* The directory the file system reaches from `at` along the components:
\* ".." goes to the parent, and the parent of the root is the root.
RECURSIVE Walk(_, _)
Walk(at, components) ==
    IF components = << >> THEN at
    ELSE LET c == Head(components)
         IN  Walk(IF c = ".." THEN SubSeq(at, 1, Len(at) - 1)
                  ELSE IF c = "." THEN at
                  ELSE Append(at, c),
                  Tail(components))

\* dest_path of extract_zip: the temporary directory of the installation.
ZipDest == "/tmp/x"

\* file.name() of the entries of an archive: files, a directory, and names
\* that are absolute or hold "..".
ZipNames == {"rg", "bin/", "bin/rg", "../rg", "/opt/rg", "bin/../../rg", "rg/"}

MaxZipEntries == 2

\* The archives: whether ZipArchive::new reads the bytes, and the names of
\* the entries in the order of the archive.
ZipArchives ==
    [valid : BOOLEAN,
     names : UNION { [1..n -> ZipNames] : n \in 0..MaxZipEntries }]

\* The state of extract_zip: the index of the loop, the directories and
\* the files of the file system, what the call has created, the Result.
ZipState(i, dirs, files, made, result) ==
    [i |-> i, dirs |-> dirs, files |-> files, made |-> made, ret |-> result]

\* fs::create_dir_all: the directories along the components of a path.
DirsAlong(components) ==
    { Walk(<< >>, SubSeq(components, 1, k)) : k \in 0..Len(components) }

InitZip ==
    /\ fn_in \in ZipArchives
    /\ fn_out = None
    /\ IdleOthers

\* extract_zip is called: ZipArchive::new; the destination exists.
OpenZip ==
    /\ fn_out = None
    /\ fn_out' =
          Some(ZipState(1, DirsAlong(Components(ZipDest, 1, "")), {}, {},
                        IF fn_in.valid THEN None ELSE Some(Err("zip", 0))))
    /\ UNCHANGED << fn_in, vs_current, vs_latest, vs_result, run_vars >>

\* One turn of the loop of extract_zip, for the entry of the given
\* components: create_dir_all of the directory, File::create of the file.
ExtractEntry(st, is_dir, outpath) ==
    LET target == IF is_dir THEN outpath
                  ELSE SubSeq(outpath, 1, Len(outpath) - 1)
        along  == DirsAlong(target)
        file   == Walk(<< >>, outpath)
        dirs   == st.dirs \cup along
        made   == st.made \cup (along \ st.dirs)
    IN  IF along \cap st.files # {}
        THEN ZipState(st.i, st.dirs, st.files, st.made, Some(Err("io", 0)))
        ELSE IF is_dir
        THEN ZipState(st.i + 1, dirs, st.files, made, None)
        ELSE IF file \in dirs
        THEN ZipState(st.i, dirs, st.files, made, Some(Err("io", 0)))
        ELSE ZipState(st.i + 1, dirs, st.files \cup {file},
                      made \cup {file}, None)

ExtractZipEntry ==
    /\ IsSome(fn_out)
    /\ Unwrap(fn_out).ret = None
    /\ Unwrap(fn_out).i <= Len(fn_in.names)
    /\ fn_out' =
          Some(ExtractEntry(Unwrap(fn_out),
                            EndsWith(fn_in.names[Unwrap(fn_out).i], "/"),
                            Components(PathJoin(ZipDest,
                                                fn_in.names[Unwrap(fn_out).i]),
                                       1, "")))
    /\ UNCHANGED << fn_in, vs_current, vs_latest, vs_result, run_vars >>

\* The loop is over: Ok(()).
ExtractZipReturn ==
    /\ IsSome(fn_out)
    /\ Unwrap(fn_out).ret = None
    /\ Unwrap(fn_out).i > Len(fn_in.names)
    /\ fn_out' = Some([Unwrap(fn_out) EXCEPT !.ret = Some(OkResult)])
    /\ UNCHANGED << fn_in, vs_current, vs_latest, vs_result, run_vars >>

NextZip == OpenZip \/ ExtractZipEntry \/ ExtractZipReturn

SpecZip == InitZip /\ [][NextZip]_vars

\* A place of the file system lies inside the destination directory.
InsideDest(place) ==
    LET dest == Components(ZipDest, 1, "")
    IN  Len(place) >= Len(dest) /\ SubSeq(place, 1, Len(dest)) = dest

\* C26: every file and every directory extract_zip creates lies inside the
\* destination directory, whatever the names of the entries: absolute
\* names and names with ".." included.
C26_NothingIsCreatedOutsideDestination ==
    IsSome(fn_out) => \A place \in Unwrap(fn_out).made : InsideDest(place)

\* --------------------------- the download URL of a release on its own (main.rs)

\* tag_name of the latest release, as the projects write their tags.
ReleaseTags == {"v1.0.0", "1.0.0", "v2.1", "release-1.2.3", "1.0.0-rc1", "nightly"}

\* The calls of install_app that reach the Template method: an
\* application with a repository and no commands, the tag of its latest
\* release, the build target.
UrlCalls ==
    [app : { a \in AppCatalog :
                 has_repo(a) /\ installation_method(a) = "Template" },
     tag_name : ReleaseTags,
     system_info : detect_system_info]

InitUrl ==
    /\ fn_in \in UrlCalls
    /\ fn_out = None
    /\ IdleOthers

\* get_latest_version, from the tag_name on: the version extracted from
\* the tag, or the error that none could be.
CallGetLatestVersion ==
    /\ fn_out = None
    /\ fn_out' = Some([latest_version |-> TagVersion(Some(fn_in.tag_name)),
                       url |-> None])
    /\ UNCHANGED << fn_in, vs_current, vs_latest, vs_result, run_vars >>

\* install_app, Template method: build_download_url with the version that
\* get_latest_version returned.
CallBuildDownloadUrl ==
    /\ IsSome(fn_out)
    /\ IsSome(Unwrap(fn_out).latest_version)
    /\ Unwrap(fn_out).url = None
    /\ fn_out' =
          Some([Unwrap(fn_out) EXCEPT !.url =
                    Some(build_download_url(fn_in.app,
                                            Unwrap(Unwrap(fn_out).latest_version),
                                            fn_in.system_info))])
    /\ UNCHANGED << fn_in, vs_current, vs_latest, vs_result, run_vars >>

NextUrl == CallGetLatestVersion \/ CallBuildDownloadUrl

SpecUrl == InitUrl /\ [][NextUrl]_vars

\* C27: the download URL addresses the release by the tag_name of the
\* latest release: its path goes on, after /releases/download/, with that
\* tag and a separator.
C27_UrlNamesTheReleaseTag ==
    (IsSome(fn_out) /\ IsSome(Unwrap(fn_out).url)) =>
        MatchesAt(Unwrap(Unwrap(fn_out).url),
                  "https://github.com/" \o get_repo(fn_in.app)
                      \o "/releases/download/" \o fn_in.tag_name \o "/",
                  1)

\* ------------------------------- properties of the order of substitution

\* The variables in the order process_template inserts them.
InsertionOrder ==
    << "name", "bin", "version", "os", "arch", "suffix", "bin_dir",
       "bin_path", "app_path" >>

\* The text with every download macro replaced by its destination path.
RECURSIVE MacrosReplaced(_, _)
MacrosReplaced(text, caps) ==
    IF caps = << >> THEN text
    ELSE MacrosReplaced(Replace(text, Head(caps).full, Head(caps).dest_path),
                        Tail(caps))

\* The text with the variables substituted one after the other in the
\* given order.
RECURSIVE SubstitutedInOrder(_, _, _)
SubstitutedInOrder(text, order, variables) ==
    IF order = << >> THEN text
    ELSE SubstitutedInOrder(Substitute(text, Head(order), variables[Head(order)]),
                            Tail(order), variables)

\* C28: process_template returns one text for one call, whatever the order
\* in which the variables are substituted, a value that holds the {key}
\* of another variable included: the text is the one that the order of
\* insertion gives.
C28_RenderingIgnoresSubstitutionOrder ==
    RenderedOk =>
        Rendered = SubstitutedInOrder(
                       MacrosReplaced(fn_in.template,
                                      DownloadCaptures(fn_in.template, 1)),
                       InsertionOrder, TemplateVariables(fn_in))

====
